---- MODULE Spec2Model ----
(***************************************************************************)
(* VoiceAi: a SIP/RTP <-> realtime-AI bridge (src/index.js,                *)
(* VoiceAISIPClient) with its collaborators SIPSession (sip-session),      *)
(* TimeoutManager (timeout-manager) and WebSocketManager                   *)
(* (websocket-manager.js).                                                 *)
(*                                                                         *)
(* The model follows one Node.js event loop: every action is one callback  *)
(* (a datagram handler, a timer, a WebSocket event) run to completion.     *)
(* Time is a clock `now` counted in ticks of one second; a timer fires     *)
(* when its deadline is reached and the clock does not pass a due timer.   *)
(* Delays below one second (100 ms fast answer, 20 ms RTP pacing) are      *)
(* zero ticks: they fire in the tick in which they were armed.             *)
(***************************************************************************)
EXTENDS Integers, Sequences, FiniteSets, TLC

(***************************************************************************)
(* Bounds of the model.                                                    *)
(***************************************************************************)
MaxTime == 4
MaxCalls == 1
MaxInvites == 2
MaxDeltas == 1
MaxFrames == 2
MaxWsCloses == 1
MaxPushes == 52
MaxRegisters == 5
MaxBridgeTime == 1810
MaxTimers == 3
MaxRtpDeltas == 2
MaxReconnectCloses == 11
MaxSocketTime == 20
MaxSocketErrors == 4
MaxAipSockets == 4

(***************************************************************************)
(* Program constants (milliseconds in the source, ticks of 1 s here).      *)
(***************************************************************************)
AutoAnswerFast == 0
AutoAnswerDefault == 1
MediaValidationDelay == 2
LegitimateAfter == 3
InactivityTimeout == 30
QueueCap == 50
MaxReconnectAttempts == 10
BaseReconnectDelay == 1000
MaxReconnectDelay == 30000
MaxPayloadSize == 160
SeqModulus == 65536
\* The first timestamp that writeUInt32BE rejects, 2^32.  Timestamps of the
\* model are the program's less 2^31 + 1, which keeps them within 32-bit
\* signed integers.
TimestampLimit == 2147483647

\* SIPLiveKitBridge (seconds).
RegistrationExpires == 3600
HealthCheckInterval == 5
StuckRegistering == 30
KeepAliveAfter == 300
SocketErrorLimit == 3
SocketCloseDelay == 5
SettleDelay == 2
AipMaxReconnectAttempts == 10
AipReconnectDelay == 1000
AipMaxReconnectDelay == 30000

\* SIPTransaction (milliseconds).
TimerT1 == 500
TimerT2 == 4000
MaxRetransmissionsNonInvite == 6
MaxRetransmissionsInvite == 7

CallIds == 1..MaxCalls
Addrs == {"pbx", "other"}
CallerAddrs == {"pbx"}
Reasons == {"none", "normal", "timeout"}
DeltaLens == {160, 320}

VARIABLES
  now,                 \* wall clock, in ticks
  sessions,            \* SIPSessionManager.sessions: Call-ID -> SIPSession
  currentSession,      \* VoiceAISIPClient.currentSession
  rtpSocket,           \* VoiceAISIPClient.rtpSocket: 0 = null, else the socket's id
  answerTimers,        \* pending auto-answer setTimeout callbacks
  rtpTimers,           \* pending per-packet setTimeout callbacks of streamRealtimeAudio
  rtpSequenceNumber,   \* VoiceAISIPClient.rtpSequenceNumber
  rtpTimestamp,        \* VoiceAISIPClient.rtpTimestamp
  wsState,             \* readyState of WebSocketManager.ws
  isConnecting,        \* WebSocketManager.isConnecting
  reconnectAttempts,   \* WebSocketManager.reconnectAttempts
  reconnectDue,        \* deadline of WebSocketManager's 'reconnect' timer, -1 = none
  isRealtimeConnected, \* VoiceAISIPClient.isRealtimeConnected
  realtimeWS,          \* VoiceAISIPClient.realtimeWS: "null", "undefined" or "ws"
  realtimeSessionId,   \* VoiceAISIPClient.realtimeSessionId is set
  sessionConfigured,   \* VoiceAISIPClient.sessionConfigured
  pendingAudioQueue,   \* VoiceAISIPClient.pendingAudioQueue
  sipOut,              \* observed: SIP responses sent, as [callId, msg]
  rtpLog,              \* observed: session state at each RTP packet sent
  aiSent,              \* observed: frames the last handler emitted to the AI
  transLog,            \* observed: setState requests made by the last handler
  lastOp,              \* observed: what the last handler was and saw
  ackSeen,             \* observed: calls whose ACK was handled after the 200 OK
  confirmedAt,         \* observed: tick at which each session reached CONFIRMED
  nInvites, nDeltas, nFrames, nWsCloses,
  \* SIPLiveKitBridge (src/sip-livekit-bridge.js), the registration engine
  registrationState,    \* SIPLiveKitBridge.registrationState
  registrationCallId,   \* SIPLiveKitBridge.registrationCallId, 0 = null
  registrationCSeq,     \* SIPLiveKitBridge.registrationCSeq
  registrationTimer,    \* deadline of the re-registration setTimeout, -1 = none
  lastRegistrationTime, \* SIPLiveKitBridge.lastRegistrationTime, -1 = null
  healthCheckDue,       \* next run of the health-check setInterval, -1 = not started
  nRegisters,           \* observed: number of REGISTER requests put on the wire
  lastRegister,         \* observed: the REGISTER sent last
  prevRegister,         \* observed: the REGISTER sent before it
  regOutstanding,       \* observed: REGISTERs with no final response yet, [branch, at]
  lastHealth,           \* observed: what the last health check found and did
  \* VoiceAISIPClient (src/index.js), its own registration
  cseq,                 \* VoiceAISIPClient.cseq
  isRegistered,         \* VoiceAISIPClient.isRegistered
  \* TimeoutManager (timeout-manager) and the runtime's timers behind it
  timeouts,             \* TimeoutManager.timeouts: name -> timer id, 0 = no entry
  intervals,            \* TimeoutManager.intervals: name -> timer id, 0 = no entry
  nodeTimers,           \* the runtime's live timers, [id, kind, name, duration, due]
  tmCancelled,          \* observed: timers the manager cleared, with who cleared them
  tmFired,              \* observed: the timer whose callback ran in the last step, 0 = none
  nTimers,              \* observed: number of timers created so far
  rtpSSRC,              \* VoiceAISIPClient.rtpSSRC
  \* SIPTransaction (session-manager), one client transaction
  txn,                  \* the SIPTransaction object, NoTxn before it is constructed
  txnObs,               \* observed: intervals armed, callbacks made, the last event
  \* The registrar the bridge registers with
  registrarExpires,     \* the longest expiry, in seconds, the registrar grants
  \* SIPLiveKitBridge, the recovery of its datagram socket
  socketErrorCount,     \* SIPLiveKitBridge.socketErrorCount (undefined counts as 0)
  recoveryTimers,       \* deadlines of the pending setTimeout(attemptSocketRecovery)
  settleTimers,         \* deadlines of the pending setTimeout(registerWithUCM)
  lastSock,             \* observed: the last socket event handled and what it did
  \* SIPLiveKitBridge, its socket and its shutdown
  sipSocket,            \* SIPLiveKitBridge.sipSocket: "null" or "bound"
  shutdownPhase,        \* position of shutdown(): "running", "closing", "closed"
  \* AIProcessor (src/ai-processor.js)
  aip                   \* the AIProcessor object, its sockets and its pending timers

callVars == <<now, sessions, currentSession, rtpSocket, answerTimers, rtpTimers,
              rtpSequenceNumber, rtpTimestamp>>
wsmVars  == <<wsState, isConnecting, reconnectAttempts, reconnectDue>>
aiVars   == <<isRealtimeConnected, realtimeWS, realtimeSessionId, sessionConfigured,
              pendingAudioQueue>>
obsVars  == <<sipOut, rtpLog, aiSent, transLog, lastOp, ackSeen, confirmedAt>>
cntVars  == <<nInvites, nDeltas, nFrames, nWsCloses>>
bridgeVars == <<registrationState, registrationCallId, registrationCSeq,
                registrationTimer, lastRegistrationTime, healthCheckDue>>
regObsVars == <<nRegisters, lastRegister, prevRegister, regOutstanding, lastHealth>>
sipRegVars == <<cseq, isRegistered>>
tmVars == <<timeouts, intervals, nodeTimers, tmCancelled, tmFired, nTimers>>
txnVars == <<txn, txnObs>>
sockVars == <<socketErrorCount, recoveryTimers, settleTimers, lastSock>>
lifeVars == <<sipSocket, shutdownPhase>>
auxVars == <<rtpSSRC, txnVars, registrarExpires, sockVars, lifeVars, aip>>
extVars == <<bridgeVars, regObsVars, sipRegVars, tmVars, auxVars>>
mainVars == <<callVars, wsmVars, aiVars, obsVars, cntVars>>
clientVars == <<mainVars, sipRegVars, tmVars, auxVars>>
vars == <<mainVars, extVars>>

(***************************************************************************)
(* SIPSession (sip-session).                                               *)
(***************************************************************************)
NoSession == [state |-> "NONE", rtpPort |-> FALSE, remoteSdp |-> FALSE,
              sessionTimer |-> FALSE, mediaDue |-> -1]
NewSession == [state |-> "IDLE", rtpPort |-> FALSE, remoteSdp |-> FALSE,
               sessionTimer |-> FALSE, mediaDue |-> -1]

\* A looser table that would let a ringing call skip confirmation.
validTransitionsSkipConfirm(st) ==
  CASE st = "IDLE"        -> {"CALLING", "PROCEEDING", "TERMINATED"}
    [] st = "CALLING"     -> {"PROCEEDING", "CONFIRMED", "TERMINATED"}
    [] st = "PROCEEDING"  -> {"CONFIRMED", "MEDIA_READY", "TERMINATED"}
    [] st = "CONFIRMED"   -> {"MEDIA_READY", "TERMINATED"}
    [] st = "MEDIA_READY" -> {"AI_ACTIVE", "TERMINATED"}
    [] st = "AI_ACTIVE"   -> {"TERMINATED"}
    [] OTHER              -> {}

validTransitions(st) ==
  CASE st = "IDLE"        -> {"CALLING", "PROCEEDING", "TERMINATED"}
    [] st = "CALLING"     -> {"PROCEEDING", "CONFIRMED", "TERMINATED"}
    [] st = "PROCEEDING"  -> {"CONFIRMED", "TERMINATED"}
    [] st = "CONFIRMED"   -> {"MEDIA_READY", "TERMINATED"}
    [] st = "MEDIA_READY" -> {"AI_ACTIVE", "TERMINATED"}
    [] st = "AI_ACTIVE"   -> {"TERMINATED"}
    [] OTHER              -> {}

startSessionTimer(s) == [s EXCEPT !.sessionTimer = TRUE]

startMediaValidationTimer(s, t) == [s EXCEPT !.mediaDue = t + MediaValidationDelay]

validateMediaReadiness(s, t) ==
  IF s.state # "CONFIRMED" THEN s
  ELSE IF ~s.rtpPort \/ ~s.remoteSdp THEN s
  ELSE startMediaValidationTimer(s, t)

cleanup(s) == [s EXCEPT !.sessionTimer = FALSE, !.mediaDue = -1,
                        !.rtpPort = FALSE, !.remoteSdp = FALSE]

setMedia(s) == [s EXCEPT !.rtpPort = TRUE, !.remoteSdp = TRUE]

\* setState(newState): the session after the request, made at tick t.
setState(s, newState, t) ==
  IF newState \notin validTransitions(s.state) THEN s
  ELSE LET s1 == [s EXCEPT !.state = newState] IN
       CASE newState = "CONFIRMED"  -> validateMediaReadiness(startSessionTimer(s1), t)
         [] newState = "TERMINATED" -> cleanup(s1)
         [] OTHER                   -> s1

\* setState logs "Invalid state transition" (console.warn) and returns false.
setStateWarns(s, newState) == newState \notin validTransitions(s.state)

isActive(s) == s.state \in {"CALLING", "PROCEEDING", "CONFIRMED"}
validateAudioReadiness(s) == isActive(s) /\ s.rtpPort /\ s.remoteSdp
isMediaReady(s) == s.state \in {"MEDIA_READY", "AI_ACTIVE"}
validateAIReadiness(s) == validateAudioReadiness(s) /\ isMediaReady(s)

\* One setState request as observed: where it started, what was asked, where it ended.
Req(s, newState, t) ==
  [from |-> s.state, to |-> newState, after |-> setState(s, newState, t).state,
   warned |-> setStateWarns(s, newState)]

(***************************************************************************)
(* VoiceAISIPClient.currentSession.                                        *)
(***************************************************************************)
NullSession ==
  [id |-> 0, callId |-> 0, callerInfo |-> "none", startTime |-> 0,
   lastAudioActivity |-> 0, lastResponseTime |-> 0,
   welcomeMessageActive |-> FALSE, pendingCleanup |-> FALSE,
   aiResponseInProgress |-> FALSE, waitingForAck |-> FALSE]

HasCall == currentSession.id # 0

NoOp == [op |-> "none"]

(***************************************************************************)
(* SIPLiveKitBridge after its constructor: unregistered, no Call-ID, CSeq  *)
(* 1, no timer.                                                            *)
(***************************************************************************)
NoRegister == [n |-> 0, callId |-> 0, cseq |-> 0, branch |-> 0, auth |-> FALSE,
               at |-> -1, by |-> "none", stateBefore |-> "none"]
NoHealth == [at |-> -1]

BridgeInit ==
  /\ registrationState = "UNREGISTERED"
  /\ registrationCallId = 0
  /\ registrationCSeq = 1
  /\ registrationTimer = -1
  /\ lastRegistrationTime = -1
  /\ healthCheckDue = -1
  /\ nRegisters = 0
  /\ lastRegister = NoRegister
  /\ prevRegister = NoRegister
  /\ regOutstanding = {}
  /\ lastHealth = NoHealth

\* VoiceAISIPClient after its constructor, as far as registration goes.
SipRegInit ==
  /\ cseq = 1
  /\ isRegistered = FALSE

\* TimeoutManager after its constructor: both maps empty.
TimerNames == {"a", "b"}

TmInit ==
  /\ timeouts = [n \in TimerNames |-> 0]
  /\ intervals = [n \in TimerNames |-> 0]
  /\ nodeTimers = {}
  /\ tmCancelled = {}
  /\ tmFired = 0
  /\ nTimers = 0

\* The constructor draws rtpSSRC at random from 0 .. 2^32 - 1.
SsrcDraws == {0, 1}

\* No SIPTransaction exists until one is constructed.
NoTxn == [method |-> "none", state |-> "NONE", retransmissions |-> 0, timer |-> 0,
          statusCode |-> 0]
NoTxnObs == [armed |-> <<>>, sent |-> 0, elapsed |-> 0, event |-> "none"]
TxnInit == txn = NoTxn /\ txnObs = NoTxnObs

NoSock == [n |-> 0, op |-> "none", errors |-> 0, count |-> 0, rebinds |-> 0]
SockInit ==
  /\ socketErrorCount = 0
  /\ recoveryTimers = <<>>
  /\ settleTimers = <<>>
  /\ lastSock = NoSock

LifeInit == sipSocket = "null" /\ shutdownPhase = "running"

\* new AIProcessor(config).  socks: the state of every WebSocket created and
\* not yet closed; timers: the number of pending setTimeout(connect);
\* failures, scheduled, stopped: observed.
NoAip == [ws |-> 0, connected |-> FALSE, reconnectAttempts |-> 0,
          reconnectDelay |-> AipReconnectDelay, socks |-> <<>>, timers |-> 0,
          failures |-> 0, scheduled |-> 0, stopped |-> FALSE, startedAfterStop |-> FALSE]
AipInit == aip = NoAip

ExtInitButSsrc ==
  /\ BridgeInit /\ SipRegInit /\ TmInit /\ TxnInit /\ SockInit /\ LifeInit /\ AipInit
  /\ registrarExpires = RegistrationExpires

ExtInit == ExtInitButSsrc /\ rtpSSRC = 1

(***************************************************************************)
(* Initial state: the client is constructed and init() has run: no call,   *)
(* no RTP socket, and the WebSocketManager is connecting to the AI         *)
(* service.                                                                *)
(***************************************************************************)
InitWith(ids) ==
  /\ now = 0
  /\ sessions = [c \in ids |-> NoSession]
  /\ currentSession = NullSession
  /\ rtpSocket = 0
  /\ answerTimers = {}
  /\ rtpTimers = {}
  /\ rtpSequenceNumber = SeqModulus - 1
  /\ rtpTimestamp = 0
  /\ wsState = "connecting"
  /\ isConnecting = TRUE
  /\ reconnectAttempts = 0
  /\ reconnectDue = -1
  /\ isRealtimeConnected = FALSE
  /\ realtimeWS = "null"
  /\ realtimeSessionId = FALSE
  /\ sessionConfigured = FALSE
  /\ pendingAudioQueue = <<>>
  /\ sipOut = {}
  /\ rtpLog = {}
  /\ aiSent = <<>>
  /\ transLog = {}
  /\ lastOp = NoOp
  /\ ackSeen = {}
  /\ confirmedAt = [c \in ids |-> -1]
  /\ nInvites = 0
  /\ nDeltas = 0
  /\ nFrames = 0
  /\ nWsCloses = 0
  /\ ExtInit

Init == InitWith(CallIds)

\* The tick at which a session first entered CONFIRMED (observation only).
ReachConfirmed(c, before, after) ==
  IF before.state # "CONFIRMED" /\ after.state = "CONFIRMED"
  THEN [confirmedAt EXCEPT ![c] = now] ELSE confirmedAt

(***************************************************************************)
(* handleIncomingCall: an INVITE for Call-ID c arrives from address a,     *)
(* with or without an SDP body, asking for fast (Answer-Mode: Auto) or     *)
(* default answer delay.                                                   *)
(***************************************************************************)
handleIncomingCall(c, a, sdp, delay) ==
  /\ LET inv == nInvites + 1
         s0  == IF sessions[c].state = "NONE" THEN NewSession ELSE sessions[c]
         s1  == setState(s0, "PROCEEDING", now)
         s2  == IF sdp THEN setMedia(s1) ELSE s1
         s3  == setState(s2, "ANSWERING", now)
     IN /\ sessions' = [sessions EXCEPT ![c] = s3]
        /\ transLog' = {Req(s0, "PROCEEDING", now), Req(s2, "ANSWERING", now)}
        /\ sipOut' = sipOut \cup {[callId |-> c, msg |-> "180"]}
        /\ currentSession' =
             [id |-> inv, callId |-> c, callerInfo |-> a, startTime |-> now,
              lastAudioActivity |-> now, lastResponseTime |-> now,
              welcomeMessageActive |-> FALSE, pendingCleanup |-> FALSE,
              aiResponseInProgress |-> FALSE, waitingForAck |-> FALSE]
        /\ answerTimers' = answerTimers \cup
             {[inv |-> inv, callId |-> c, addr |-> a, due |-> now + delay]}
        /\ nInvites' = inv
        /\ confirmedAt' = ReachConfirmed(c, s0, s3)
        /\ lastOp' = NoOp
  /\ aiSent' = <<>>
  /\ UNCHANGED <<now, rtpSocket, rtpTimers, rtpSequenceNumber, rtpTimestamp>>
  /\ UNCHANGED <<wsmVars, aiVars, rtpLog, ackSeen, nDeltas, nFrames, nWsCloses>>
  /\ UNCHANGED extVars

(***************************************************************************)
(* The auto-answer timer of handleIncomingCall.  The callback sends the    *)
(* 200 OK, opens the RTP socket (the bind of a fresh UDP socket completes  *)
(* on the next turn of the loop, before any datagram or timer is served,   *)
(* so the rest of the callback follows without interleaving), requests     *)
(* CONFIRMED, marks the call as waiting for ACK and asks the               *)
(* TimeoutManager for getTimeout('ack_timeout').  TimeoutManager has no    *)
(* such method: the call throws, the ACK timer is never armed, and the     *)
(* catch block requests state ERROR and sends a 500.                       *)
(***************************************************************************)
autoAnswerTimer(t) ==
  /\ t \in answerTimers
  /\ t.due <= now
  /\ LET s0 == sessions[t.callId]
         s1 == setState(s0, "ANSWERED", now)
         s2 == setState(s1, "CONFIRMED", now)
         s3 == setState(s2, "ERROR", now)
     IN /\ sessions' = [sessions EXCEPT ![t.callId] = s3]
        /\ transLog' = {Req(s0, "ANSWERED", now), Req(s1, "CONFIRMED", now),
                        Req(s2, "ERROR", now)}
        /\ confirmedAt' = ReachConfirmed(t.callId, s0, s3)
  /\ sipOut' = sipOut \cup {[callId |-> t.callId, msg |-> "200"],
                            [callId |-> t.callId, msg |-> "500"]}
  /\ rtpSocket' = t.inv
  /\ currentSession' = IF HasCall THEN [currentSession EXCEPT !.waitingForAck = TRUE]
                       ELSE currentSession
  /\ answerTimers' = answerTimers \ {t}
  /\ lastOp' = NoOp
  /\ aiSent' = <<>>
  /\ UNCHANGED <<now, rtpTimers, rtpSequenceNumber, rtpTimestamp>>
  /\ UNCHANGED <<wsmVars, aiVars, rtpLog, ackSeen, cntVars>>
  /\ UNCHANGED extVars

(***************************************************************************)
(* handleAckMessage followed by proceedWithMediaValidation: an ACK for the *)
(* current call.  The peer acknowledges a 200 OK it has received.  The     *)
(* handler requests CONFIRMED, clears waitingForAck, starts the session's  *)
(* media validation timer and then calls the missing                       *)
(* timeoutManager.getTimeout, whose TypeError is caught and answered by a  *)
(* request for state ERROR.  An ACK for another Call-ID is ignored.        *)
(***************************************************************************)
handleAckMessage(c) ==
  /\ [callId |-> c, msg |-> "200"] \in sipOut
  /\ HasCall
  /\ currentSession.callId = c
  /\ LET s0 == sessions[c]
         s1 == setState(s0, "CONFIRMED", now)
         s2 == startMediaValidationTimer(s1, now)
         s3 == setState(s2, "ERROR", now)
     IN /\ sessions' = [sessions EXCEPT ![c] = s3]
        /\ transLog' = {Req(s0, "CONFIRMED", now), Req(s2, "ERROR", now)}
        /\ confirmedAt' = ReachConfirmed(c, s0, s3)
        /\ lastOp' = [op |-> "ack", callId |-> c, stateBefore |-> s0.state,
                      stateAfter |-> s3.state, mediaDue |-> s3.mediaDue]
  /\ currentSession' = [currentSession EXCEPT !.waitingForAck = FALSE]
  /\ ackSeen' = ackSeen \cup {c}
  /\ aiSent' = <<>>
  /\ UNCHANGED <<now, rtpSocket, answerTimers, rtpTimers, rtpSequenceNumber, rtpTimestamp>>
  /\ UNCHANGED <<wsmVars, aiVars, sipOut, rtpLog, cntVars>>
  /\ UNCHANGED extVars

(***************************************************************************)
(* The media validation timer of SIPSession fires: request MEDIA_READY.    *)
(***************************************************************************)
mediaValidationTimer(c) ==
  /\ sessions[c].mediaDue >= 0
  /\ sessions[c].mediaDue <= now
  /\ LET s0 == [sessions[c] EXCEPT !.mediaDue = -1]
         s1 == setState(s0, "MEDIA_READY", now)
     IN /\ sessions' = [sessions EXCEPT ![c] = s1]
        /\ transLog' = {Req(s0, "MEDIA_READY", now)}
  /\ lastOp' = NoOp
  /\ aiSent' = <<>>
  /\ UNCHANGED <<now, currentSession, rtpSocket, answerTimers, rtpTimers,
                 rtpSequenceNumber, rtpTimestamp>>
  /\ UNCHANGED <<wsmVars, aiVars, sipOut, rtpLog, ackSeen, confirmedAt, cntVars>>
  /\ UNCHANGED extVars

(***************************************************************************)
(* respondToBye and its helpers.                                           *)
(***************************************************************************)
\* The Reason header's value contains "user", "normal" or "hangup".
reasonMatches(reason) == reason \in {"user", "normal", "hangup"}

\* The same test with the age threshold reached rather than exceeded.
isLegitimateCallerDisconnectAtThreshold(cs, a, reason, t) ==
  \/ a = cs.callerInfo
  \/ reasonMatches(reason)
  \/ t - cs.startTime >= LegitimateAfter

\* isLegitimateCallerDisconnect(message, rinfo) for current session cs at tick t.
isLegitimateCallerDisconnect(cs, a, reason, t) ==
  \/ a = cs.callerInfo
  \/ reasonMatches(reason)
  \/ t - cs.startTime > LegitimateAfter

\* shouldTerminateForInactivity() for current session cs at tick t.
shouldTerminateForInactivity(cs, t) ==
  /\ ~cs.aiResponseInProgress
  /\ ~cs.welcomeMessageActive
  /\ t - cs.lastAudioActivity > InactivityTimeout
  /\ t - cs.lastResponseTime > InactivityTimeout

\* What respondToBye decides for a BYE that matches the current call.
byeTerminates(cs, a, reason, t) ==
  IF isLegitimateCallerDisconnect(cs, a, reason, t) THEN TRUE
  ELSE IF cs.welcomeMessageActive THEN FALSE
  ELSE shouldTerminateForInactivity(cs, t)

\* cleanupSession(): drop the queue and the current call, close the RTP socket.
\* The SIPSession object is left as it is, in the session manager.
cleanupSession ==
  /\ pendingAudioQueue' = <<>>
  /\ currentSession' = NullSession
  /\ rtpSocket' = 0

respondToBye(c, a, reason) ==
  /\ sessions[c].state # "NONE"
  /\ LET matched == HasCall /\ currentSession.callId = c
         legit   == matched /\ isLegitimateCallerDisconnect(currentSession, a, reason, now)
         term    == matched /\ byeTerminates(currentSession, a, reason, now)
     IN /\ IF term THEN cleanupSession
           ELSE UNCHANGED <<pendingAudioQueue, currentSession, rtpSocket>>
        /\ lastOp' = [op |-> "bye", callId |-> c, matched |-> matched,
                      fromCaller |-> matched /\ a = currentSession.callerInfo,
                      reasonOk |-> reasonMatches(reason), legit |-> legit,
                      welcome |-> currentSession.welcomeMessageActive,
                      aiBusy |-> currentSession.aiResponseInProgress,
                      sinceInvite |-> IF matched THEN now - currentSession.startTime ELSE -1,
                      sinceConfirmed |-> IF confirmedAt[c] >= 0 THEN now - confirmedAt[c] ELSE -1,
                      stateBefore |-> sessions[c].state,
                      terminated |-> term, response |-> "200 OK"]
  /\ transLog' = {}
  /\ aiSent' = <<>>
  /\ UNCHANGED <<now, sessions, answerTimers, rtpTimers, rtpSequenceNumber, rtpTimestamp>>
  /\ UNCHANGED <<wsmVars, isRealtimeConnected, realtimeWS, realtimeSessionId,
                 sessionConfigured, sipOut, rtpLog, ackSeen, confirmedAt, cntVars>>
  /\ UNCHANGED extVars

(***************************************************************************)
(* respondToCancel: a 200 OK for the CANCEL and a 487 for the INVITE are   *)
(* sent for whatever Call-ID the CANCEL carries.  The handler reads and    *)
(* writes no session, no timer and no call context.                        *)
(***************************************************************************)
respondToCancel(c) ==
  /\ sipOut' = sipOut \cup {[callId |-> c, msg |-> "200 CANCEL"],
                            [callId |-> c, msg |-> "487"]}
  /\ lastOp' = [op |-> "cancel", callId |-> c, stateBefore |-> sessions[c].state,
                pendingAnswer |-> \E t \in answerTimers : t.callId = c]
  /\ transLog' = {}
  /\ aiSent' = <<>>
  /\ UNCHANGED <<callVars, wsmVars, aiVars, rtpLog, ackSeen, confirmedAt, cntVars>>
  /\ UNCHANGED extVars

(***************************************************************************)
(* WebSocketManager (websocket-manager.js) and the handlers that           *)
(* initRealtimeConnection attaches to it.                                  *)
(***************************************************************************)
\* scheduleReconnect's delay after n attempts: min(1000 * 1.5^n, 30000) ms, in whole ticks.
reconnectDelay(n) ==
  CASE n = 0 -> 1 [] n = 1 -> 1 [] n = 2 -> 2 [] n = 3 -> 3 [] n = 4 -> 5
    [] n = 5 -> 7 [] n = 6 -> 11 [] n = 7 -> 17 [] n = 8 -> 25 [] OTHER -> 30

\* 2^n and 3^n.
RECURSIVE power(_, _)
power(b, n) == IF n = 0 THEN 1 ELSE b * power(b, n - 1)

\* The same delay in milliseconds (whole): baseReconnectDelay *
\* reconnectBackoffFactor^n, at most maxReconnectDelay.
reconnectDelayMs(n) ==
  LET d == (BaseReconnectDelay * power(3, n)) \div power(2, n)
  IN IF d > MaxReconnectDelay THEN MaxReconnectDelay ELSE d

AiMsg(type, frame) == [type |-> type, frame |-> frame]

\* ws 'open': the manager emits 'connected'; the client's handler receives ws as
\* its argument, stores it and calls configureRealtimeSession, which sends
\* session.update only if the stored socket is usable.
wsOnOpen(ws) ==
  /\ wsState = "connecting"
  /\ wsState' = "open"
  /\ isConnecting' = FALSE
  /\ reconnectAttempts' = 0
  /\ realtimeWS' = ws
  /\ isRealtimeConnected' = TRUE
  /\ sessionConfigured' = FALSE
  /\ aiSent' = IF ws = "ws" THEN <<AiMsg("session.update", 0)>> ELSE <<>>
  /\ transLog' = {}
  /\ lastOp' = NoOp
  /\ UNCHANGED <<callVars, reconnectDue, realtimeSessionId, pendingAudioQueue>>
  /\ UNCHANGED <<sipOut, rtpLog, ackSeen, confirmedAt, cntVars>>
  /\ UNCHANGED extVars

\* A 'disconnected' handler that would leave the queue alone.
onDisconnectedQueueKept(q) == q

\* The 'disconnected' handler's effect on the pending audio queue: cleared.
onDisconnectedQueue(q) == <<>>

\* ws 'close': the manager emits 'disconnected' and schedules a reconnect.
wsOnClose ==
  /\ wsState \in {"connecting", "open"}
  /\ wsState' = "closed"
  /\ isConnecting' = FALSE
  /\ isRealtimeConnected' = FALSE
  /\ sessionConfigured' = FALSE
  /\ realtimeSessionId' = FALSE
  /\ realtimeWS' = "null"
  /\ pendingAudioQueue' = onDisconnectedQueue(pendingAudioQueue)
  /\ reconnectDue' = IF reconnectAttempts >= MaxReconnectAttempts THEN reconnectDue
                     ELSE now + reconnectDelay(reconnectAttempts)
  /\ nWsCloses' = nWsCloses + 1
  /\ aiSent' = <<>>
  /\ transLog' = {}
  /\ lastOp' = [op |-> "wsClose", queued |-> Len(pendingAudioQueue), inCall |-> HasCall,
                attempts |-> reconnectAttempts,
                scheduled |-> reconnectAttempts < MaxReconnectAttempts,
                delayMs |-> reconnectDelayMs(reconnectAttempts)]
  /\ UNCHANGED <<callVars, reconnectAttempts>>
  /\ UNCHANGED <<sipOut, rtpLog, ackSeen, confirmedAt, nInvites, nDeltas, nFrames>>
  /\ UNCHANGED extVars

\* ws 'error': the manager emits 'error'; the client's handler marks the link down.
wsOnError ==
  /\ wsState \in {"connecting", "open"}
  /\ isConnecting' = FALSE
  /\ isRealtimeConnected' = FALSE
  /\ sessionConfigured' = FALSE
  /\ realtimeSessionId' = FALSE
  /\ aiSent' = <<>>
  /\ transLog' = {}
  /\ lastOp' = NoOp
  /\ UNCHANGED <<callVars, wsState, reconnectAttempts, reconnectDue, realtimeWS,
                 pendingAudioQueue>>
  /\ UNCHANGED <<sipOut, rtpLog, ackSeen, confirmedAt, cntVars>>
  /\ UNCHANGED extVars

\* The 'reconnect' timer: count the attempt and connect() again.
reconnectTimer ==
  /\ reconnectDue >= 0
  /\ reconnectDue <= now
  /\ reconnectDue' = -1
  /\ reconnectAttempts' = reconnectAttempts + 1
  /\ IF isConnecting \/ wsState = "open"
     THEN UNCHANGED <<wsState, isConnecting>>
     ELSE wsState' = "connecting" /\ isConnecting' = TRUE
  /\ aiSent' = <<>>
  /\ transLog' = {}
  /\ lastOp' = NoOp
  /\ UNCHANGED <<callVars, aiVars>>
  /\ UNCHANGED <<sipOut, rtpLog, ackSeen, confirmedAt, cntVars>>
  /\ UNCHANGED extVars

(***************************************************************************)
(* handleRealtimeMessage: one action per message type.                     *)
(***************************************************************************)
handleSessionCreated ==
  /\ wsState = "open"
  /\ realtimeSessionId' = TRUE
  /\ sessionConfigured' = FALSE
  /\ aiSent' = <<>>
  /\ transLog' = {}
  /\ lastOp' = NoOp
  /\ UNCHANGED <<callVars, wsmVars, isRealtimeConnected, realtimeWS, pendingAudioQueue>>
  /\ UNCHANGED <<sipOut, rtpLog, ackSeen, confirmedAt, cntVars>>
  /\ UNCHANGED extVars

\* sendAudioToRealtimeInternal's send succeeds only on a real socket; on a
\* null or undefined one it throws, and the catch clears sessionConfigured.
sendWorks == realtimeWS = "ws"

\* session.updated: mark configured and flush the queue through
\* sendAudioToRealtimeInternal, oldest first.
handleSessionUpdated ==
  /\ wsState = "open"
  /\ sessionConfigured' = (pendingAudioQueue = <<>> \/ sendWorks)
  /\ aiSent' = IF sendWorks
               THEN [i \in 1..Len(pendingAudioQueue) |-> AiMsg("append", pendingAudioQueue[i])]
               ELSE <<>>
  /\ currentSession' = IF HasCall /\ pendingAudioQueue # <<>>
                       THEN [currentSession EXCEPT !.lastAudioActivity = now]
                       ELSE currentSession
  /\ lastOp' = [op |-> "session.updated", queued |-> pendingAudioQueue]
  /\ pendingAudioQueue' = <<>>
  /\ transLog' = {}
  /\ UNCHANGED <<now, sessions, rtpSocket, answerTimers, rtpTimers, rtpSequenceNumber,
                 rtpTimestamp>>
  /\ UNCHANGED <<wsmVars, isRealtimeConnected, realtimeWS, realtimeSessionId>>
  /\ UNCHANGED <<sipOut, rtpLog, ackSeen, confirmedAt, cntVars>>
  /\ UNCHANGED extVars

\* createRTPPackets: packets of at most 160 bytes, numbered from the client's counters.
packetCount(len) == (len + MaxPayloadSize - 1) \div MaxPayloadSize

\* The header's SSRC: this.rtpSSRC || 0x12345678.
headerSsrc == IF rtpSSRC = 0 THEN 305419896 ELSE rtpSSRC

createRTPPackets(len, ref, delta) ==
  {[ref |-> ref, delta |-> delta, idx |-> i, last |-> (i = packetCount(len) - 1),
    seq |-> (rtpSequenceNumber + i) % SeqModulus,
    ts |-> rtpTimestamp + i * MaxPayloadSize,
    ssrc |-> headerSsrc] : i \in 0..(packetCount(len) - 1)}

\* writeUInt32BE(timestamp, 4) throws a RangeError for a timestamp of 2^32 or
\* more; the counter is never reduced.  The error leaves createRTPPackets
\* before it has stored its counters, and streamRealtimeAudio catches it
\* before any packet is scheduled.
timestampOutOfRange(len) ==
  rtpTimestamp >= TimestampLimit - (packetCount(len) - 1) * MaxPayloadSize

\* this.rtpTimestamp = timestamp.  Every value from the limit on behaves alike
\* (the next call throws on its first packet) and is kept as the limit.
nextTimestamp(len) ==
  IF rtpTimestamp >= TimestampLimit - len THEN TimestampLimit ELSE rtpTimestamp + len

\* response.audio.delta with len bytes of audio: streamRealtimeAudio.
handleResponseAudioDelta(len) ==
  /\ wsState = "open"
  /\ nDeltas' = nDeltas + 1
  /\ IF HasCall /\ rtpSocket # 0 /\ ~currentSession.pendingCleanup
     THEN /\ currentSession' = [currentSession EXCEPT !.aiResponseInProgress = TRUE,
                                                      !.lastResponseTime = now,
                                                      !.welcomeMessageActive = FALSE]
          /\ IF timestampOutOfRange(len)
             THEN UNCHANGED <<rtpTimers, rtpSequenceNumber, rtpTimestamp>>
             ELSE /\ rtpTimers' = rtpTimers \cup
                                    createRTPPackets(len, currentSession.id, nDeltas + 1)
                  /\ rtpSequenceNumber' = rtpSequenceNumber + packetCount(len)
                  /\ rtpTimestamp' = nextTimestamp(len)
     ELSE UNCHANGED <<currentSession, rtpTimers, rtpSequenceNumber, rtpTimestamp>>
  /\ lastOp' = NoOp
  /\ aiSent' = <<>>
  /\ transLog' = {}
  /\ UNCHANGED <<now, sessions, rtpSocket, answerTimers>>
  /\ UNCHANGED <<wsmVars, aiVars, sipOut, rtpLog, ackSeen, confirmedAt, nInvites,
                 nFrames, nWsCloses>>
  /\ UNCHANGED extVars

\* The callback's test without the comparison with sessionRef.
sendableToAnyCall(p) == HasCall /\ ~currentSession.pendingCleanup /\ rtpSocket # 0

\* The callback's test before it sends: a call is current, it is the object
\* that was current when the packets were scheduled (sessionRef), no cleanup
\* is pending, and the RTP socket exists.
packetSendable(p) ==
  HasCall /\ currentSession.id = p.ref /\ ~currentSession.pendingCleanup /\ rtpSocket # 0

\* One per-packet timer of streamRealtimeAudio fires, re-checks the call and
\* sends the packet.  Packet idx of a delta is due idx * 20 ms after the delta
\* arrived: the packets of one delta fire in index order, and a packet never
\* fires before a packet of an earlier delta with the same or a lower index.
\* How a packet stands against a higher-index packet of an earlier delta
\* depends on how closely the two deltas followed each other.
rtpPacketTimer(p) ==
  /\ p \in rtpTimers
  /\ \A q \in rtpTimers : q.delta = p.delta => q.idx >= p.idx
  /\ \A q \in rtpTimers : q.delta < p.delta => q.idx > p.idx
  /\ rtpTimers' = rtpTimers \ {p}
  /\ LET sends == packetSendable(p)
     IN /\ currentSession' =
             IF ~HasCall THEN currentSession
             ELSE IF sends /\ p.last
                  THEN [currentSession EXCEPT !.lastAudioActivity = now,
                                              !.aiResponseInProgress = FALSE,
                                              !.lastResponseTime = now]
                  ELSE [currentSession EXCEPT !.lastAudioActivity = now]
        /\ rtpLog' = IF sends
                     THEN rtpLog \cup {[state |-> sessions[currentSession.callId].state,
                                        seq |-> p.seq, ts |-> p.ts, ssrc |-> p.ssrc]}
                     ELSE rtpLog
        /\ lastOp' = NoOp
  /\ aiSent' = <<>>
  /\ transLog' = {}
  /\ UNCHANGED <<now, sessions, rtpSocket, answerTimers, rtpSequenceNumber, rtpTimestamp>>
  /\ UNCHANGED <<wsmVars, aiVars, sipOut, ackSeen, confirmedAt, cntVars>>
  /\ UNCHANGED extVars

\* response.audio.done and response.done: end of the welcome window, and the
\* deferred teardown if one is pending.
handleResponseDone ==
  /\ wsState = "open"
  /\ IF HasCall /\ currentSession.welcomeMessageActive
     THEN IF currentSession.pendingCleanup
          THEN cleanupSession
          ELSE /\ currentSession' = [currentSession EXCEPT !.welcomeMessageActive = FALSE]
               /\ UNCHANGED <<pendingAudioQueue, rtpSocket>>
     ELSE UNCHANGED <<pendingAudioQueue, currentSession, rtpSocket>>
  /\ lastOp' = NoOp
  /\ aiSent' = <<>>
  /\ transLog' = {}
  /\ UNCHANGED <<now, sessions, answerTimers, rtpTimers, rtpSequenceNumber, rtpTimestamp>>
  /\ UNCHANGED <<wsmVars, isRealtimeConnected, realtimeWS, realtimeSessionId,
                 sessionConfigured>>
  /\ UNCHANGED <<sipOut, rtpLog, ackSeen, confirmedAt, cntVars>>
  /\ UNCHANGED extVars

(***************************************************************************)
(* Caller audio: processIncomingRTPAudio -> sendAudioToRealtime.           *)
(***************************************************************************)
\* A push that makes room by discarding the frame just offered.
queuePushDropNewest(q, f) ==
  IF Len(q) >= QueueCap THEN q ELSE Append(q, f)

\* push, then shift if over the cap.
queuePush(q, f) ==
  LET q1 == Append(q, f) IN IF Len(q1) > QueueCap THEN Tail(q1) ELSE q1

\* What sendAudioToRealtime does with a frame: "dropped", "queued" or "sent".
audioOutcome ==
  IF ~isRealtimeConnected THEN "dropped"
  ELSE IF ~HasCall THEN "dropped"
  ELSE IF ~validateAudioReadiness(sessions[currentSession.callId]) THEN "dropped"
  ELSE IF realtimeWS # "ws" THEN "dropped"
  ELSE IF ~sessionConfigured \/ ~realtimeSessionId THEN "queued"
  ELSE "sent"

\* An RTP datagram carrying frame f arrives on the RTP socket.
processIncomingRTPAudio(f) ==
  /\ rtpSocket # 0
  /\ nFrames' = f
  /\ pendingAudioQueue' = IF audioOutcome = "queued" THEN queuePush(pendingAudioQueue, f)
                          ELSE pendingAudioQueue
  /\ aiSent' = IF audioOutcome = "sent" THEN <<AiMsg("append", f)>> ELSE <<>>
  /\ currentSession' = IF audioOutcome = "sent"
                       THEN [currentSession EXCEPT !.lastAudioActivity = now]
                       ELSE currentSession
  /\ lastOp' = [op |-> "rtpIn", frame |-> f, outcome |-> audioOutcome,
                connected |-> isRealtimeConnected, configured |-> sessionConfigured,
                ready |-> HasCall /\ validateAudioReadiness(sessions[currentSession.callId]),
                queueBefore |-> pendingAudioQueue]
  /\ transLog' = {}
  /\ UNCHANGED <<now, sessions, rtpSocket, answerTimers, rtpTimers, rtpSequenceNumber,
                 rtpTimestamp>>
  /\ UNCHANGED <<wsmVars, isRealtimeConnected, realtimeWS, realtimeSessionId,
                 sessionConfigured>>
  /\ UNCHANGED <<sipOut, rtpLog, ackSeen, confirmedAt, nInvites, nDeltas, nWsCloses>>
  /\ UNCHANGED extVars

(***************************************************************************)
(* Time passes by one tick, unless a timer is due.                         *)
(***************************************************************************)
TimerDue ==
  \/ \E t \in answerTimers : t.due <= now
  \/ \E c \in DOMAIN sessions : sessions[c].mediaDue >= 0 /\ sessions[c].mediaDue <= now
  \/ rtpTimers # {}
  \/ reconnectDue >= 0 /\ reconnectDue <= now

Tick ==
  /\ now < MaxTime
  /\ ~TimerDue
  /\ now' = now + 1
  /\ transLog' = {}
  /\ aiSent' = <<>>
  /\ lastOp' = NoOp
  /\ UNCHANGED <<sessions, currentSession, rtpSocket, answerTimers, rtpTimers,
                 rtpSequenceNumber, rtpTimestamp>>
  /\ UNCHANGED <<wsmVars, aiVars, sipOut, rtpLog, ackSeen, confirmedAt, cntVars>>
  /\ UNCHANGED extVars

(***************************************************************************)
(* Specifications.  The events are grouped by the part of the client they  *)
(* drive; each specification runs the call path together with one group,   *)
(* from the state after construction.  Spec composes all of them.          *)
(***************************************************************************)
\* SIP signalling of one call after another, and the clock.
CallNext ==
  \/ \E c \in CallIds, a \in CallerAddrs, sdp \in BOOLEAN,
        delay \in {AutoAnswerFast, AutoAnswerDefault} :
       (nInvites < MaxInvites /\ handleIncomingCall(c, a, sdp, delay))
  \/ \E t \in answerTimers : autoAnswerTimer(t)
  \/ \E c \in CallIds : handleAckMessage(c)
  \/ \E c \in CallIds : mediaValidationTimer(c)
  \/ \E c \in CallIds, a \in Addrs, reason \in Reasons : respondToBye(c, a, reason)
  \/ Tick

\* AI speech towards the caller.
AiOutNext ==
  \/ wsOnOpen("undefined")
  \/ \E len \in DeltaLens : (nDeltas < MaxDeltas /\ handleResponseAudioDelta(len))
  \/ \E p \in rtpTimers : rtpPacketTimer(p)
  \/ handleResponseDone

\* Caller audio towards the AI.
AiInNext ==
  \/ wsOnOpen("undefined")
  \/ handleSessionCreated
  \/ handleSessionUpdated
  \/ (nFrames < MaxFrames /\ processIncomingRTPAudio(nFrames + 1))

\* Loss and recovery of the AI link.
LinkNext ==
  \/ (nWsCloses < MaxWsCloses /\ wsOnClose)
  \/ wsOnError
  \/ reconnectTimer

\* The caller gives up.
CancelNext == \E c \in CallIds : respondToCancel(c)

Next == CallNext \/ CancelNext \/ AiOutNext \/ AiInNext \/ LinkNext

Spec == Init /\ [][Next]_vars
CallSpec == Init /\ [][CallNext]_vars
AiOutSpec == Init /\ [][CallNext \/ AiOutNext]_vars
AiInSpec == Init /\ [][CallNext \/ AiInNext]_vars
CancelSpec == Init /\ [][CallNext \/ CancelNext]_vars

(***************************************************************************)
(* Two calls: INVITEs, ACKs and BYEs for two different Call-IDs, from the  *)
(* state after construction.                                               *)
(***************************************************************************)
TwoCallIds == 1..(MaxCalls + 1)

TwoCallNext ==
  \/ \E c \in TwoCallIds, a \in CallerAddrs, sdp \in BOOLEAN :
       (nInvites < MaxInvites /\ handleIncomingCall(c, a, sdp, AutoAnswerDefault))
  \/ \E t \in answerTimers : autoAnswerTimer(t)
  \/ \E c \in TwoCallIds : handleAckMessage(c)
  \/ \E c \in TwoCallIds : mediaValidationTimer(c)
  \/ \E c \in TwoCallIds, a \in Addrs, reason \in Reasons : respondToBye(c, a, reason)
  \/ Tick

TwoCallSpec == InitWith(TwoCallIds) /\ [][TwoCallNext]_vars

(***************************************************************************)
(* handleSIPMessage: the dispatch of a request on the first word of its    *)
(* first line.  A request that no branch takes is logged and dropped.      *)
(***************************************************************************)
HandledMethods == {"OPTIONS", "NOTIFY", "INVITE", "BYE", "CANCEL", "ACK"}
OtherMethods == {"INFO", "SUBSCRIBE", "MESSAGE", "REGISTER"}

\* The branch of handleSIPMessage a request with this method takes.
sipDispatch(method) == IF method \in HandledMethods THEN method ELSE "unhandled"

\* A request of a method without a handler, for Call-ID c.
handleSIPMessage(c, method) ==
  /\ sipDispatch(method) = "unhandled"
  /\ lastOp' = [op |-> "request", callId |-> c, method |-> method,
                responses |-> {}]
  /\ transLog' = {}
  /\ aiSent' = <<>>
  /\ UNCHANGED <<callVars, wsmVars, aiVars, sipOut, rtpLog, ackSeen, confirmedAt, cntVars>>
  /\ UNCHANGED extVars

DispatchNext == \E c \in CallIds, method \in OtherMethods : handleSIPMessage(c, method)

DispatchSpec == Init /\ [][CallNext \/ DispatchNext]_vars

(***************************************************************************)
(* SessionSpec: a SIPSession of the session manager driven by arbitrary    *)
(* setState requests, as any caller of the class may make them.            *)
(***************************************************************************)
SessionStates == {"IDLE", "CALLING", "PROCEEDING", "CONFIRMED", "MEDIA_READY",
                  "AI_ACTIVE", "TERMINATED"}
\* The state names requested anywhere in the sources.
RequestedStates == SessionStates \cup {"ANSWERING", "ANSWERED", "ERROR", "ESTABLISHED"}

createSession(c) ==
  /\ sessions[c].state = "NONE"
  /\ sessions' = [sessions EXCEPT ![c] = NewSession]
  /\ transLog' = {}
  /\ UNCHANGED <<now, currentSession, rtpSocket, answerTimers, rtpTimers,
                 rtpSequenceNumber, rtpTimestamp>>
  /\ UNCHANGED <<wsmVars, aiVars, sipOut, rtpLog, aiSent, lastOp, ackSeen, confirmedAt,
                 cntVars>>
  /\ UNCHANGED extVars

sessionSetMedia(c) ==
  /\ sessions[c].state # "NONE"
  /\ sessions' = [sessions EXCEPT ![c] = setMedia(sessions[c])]
  /\ transLog' = {}
  /\ UNCHANGED <<now, currentSession, rtpSocket, answerTimers, rtpTimers,
                 rtpSequenceNumber, rtpTimestamp>>
  /\ UNCHANGED <<wsmVars, aiVars, sipOut, rtpLog, aiSent, lastOp, ackSeen, confirmedAt,
                 cntVars>>
  /\ UNCHANGED extVars

requestState(c, st) ==
  /\ sessions[c].state # "NONE"
  /\ sessions' = [sessions EXCEPT ![c] = setState(sessions[c], st, now)]
  /\ transLog' = {Req(sessions[c], st, now)}
  /\ UNCHANGED <<now, currentSession, rtpSocket, answerTimers, rtpTimers,
                 rtpSequenceNumber, rtpTimestamp>>
  /\ UNCHANGED <<wsmVars, aiVars, sipOut, rtpLog, aiSent, lastOp, ackSeen, confirmedAt,
                 cntVars>>
  /\ UNCHANGED extVars

SessionNext ==
  \/ \E c \in CallIds : createSession(c)
  \/ \E c \in CallIds : sessionSetMedia(c)
  \/ \E c \in CallIds, st \in RequestedStates : requestState(c, st)
  \/ \E c \in CallIds : mediaValidationTimer(c)
  \/ Tick

SessionSpec == Init /\ [][SessionNext]_vars

(***************************************************************************)
(* ByeSpec: respondToBye applied to an answered call whose activity        *)
(* tracker is drawn from all combinations of its flags.                    *)
(***************************************************************************)
ByeInit ==
  /\ now = 0
  /\ \E st \in {"MEDIA_READY", "AI_ACTIVE"} :
       sessions = [c \in CallIds |->
                     IF c = 1 THEN [state |-> st, rtpPort |-> TRUE, remoteSdp |-> TRUE,
                                    sessionTimer |-> TRUE, mediaDue |-> -1]
                     ELSE NoSession]
  /\ \E w \in BOOLEAN, busy \in BOOLEAN, pend \in BOOLEAN :
       currentSession = [NullSession EXCEPT !.id = 1, !.callId = 1, !.callerInfo = "pbx",
                                           !.welcomeMessageActive = w,
                                           !.aiResponseInProgress = busy,
                                           !.pendingCleanup = pend]
  /\ rtpSocket = 1
  /\ answerTimers = {}
  /\ rtpTimers = {}
  /\ rtpSequenceNumber = SeqModulus - 1
  /\ rtpTimestamp = 0
  /\ wsState = "open"
  /\ isConnecting = FALSE
  /\ reconnectAttempts = 0
  /\ reconnectDue = -1
  /\ isRealtimeConnected = TRUE
  /\ realtimeWS = "ws"
  /\ realtimeSessionId = TRUE
  /\ sessionConfigured = TRUE
  /\ pendingAudioQueue = <<>>
  /\ sipOut = {[callId |-> 1, msg |-> "180"], [callId |-> 1, msg |-> "200"]}
  /\ rtpLog = {}
  /\ aiSent = <<>>
  /\ transLog = {}
  /\ lastOp = NoOp
  /\ ackSeen = {1}
  /\ confirmedAt = [c \in CallIds |-> IF c = 1 THEN 0 ELSE -1]
  /\ nInvites = 1
  /\ nDeltas = 0
  /\ nFrames = 0
  /\ nWsCloses = 0
  /\ ExtInit

ByeNext ==
  \/ \E c \in CallIds, a \in Addrs, reason \in Reasons : respondToBye(c, a, reason)
  \/ \E len \in DeltaLens : (nDeltas < MaxDeltas /\ handleResponseAudioDelta(len))
  \/ \E p \in rtpTimers : rtpPacketTimer(p)
  \/ handleResponseDone
  \/ Tick

ByeSpec == ByeInit /\ [][ByeNext]_vars

(***************************************************************************)
(* QueueSpec: the pending audio queue of a confirmed call whose AI link    *)
(* has delivered its socket to the 'connected' handler and is not yet      *)
(* configured: frames arrive, the session is created and updated, the      *)
(* link closes and reconnects.  Nothing in the queue's handling depends on *)
(* the clock, which here advances only towards a pending reconnect.        *)
(***************************************************************************)
QueueInit ==
  /\ now = 0
  /\ sessions = [c \in CallIds |->
                   IF c = 1 THEN [state |-> "CONFIRMED", rtpPort |-> TRUE,
                                  remoteSdp |-> TRUE, sessionTimer |-> TRUE,
                                  mediaDue |-> -1]
                   ELSE NoSession]
  /\ currentSession = [NullSession EXCEPT !.id = 1, !.callId = 1, !.callerInfo = "pbx",
                                          !.waitingForAck = TRUE]
  /\ rtpSocket = 1
  /\ answerTimers = {}
  /\ rtpTimers = {}
  /\ rtpSequenceNumber = SeqModulus - 1
  /\ rtpTimestamp = 0
  /\ wsState = "open"
  /\ isConnecting = FALSE
  /\ reconnectAttempts = 0
  /\ reconnectDue = -1
  /\ isRealtimeConnected = TRUE
  /\ realtimeWS = "ws"
  /\ realtimeSessionId = FALSE
  /\ sessionConfigured = FALSE
  /\ pendingAudioQueue = <<>>
  /\ sipOut = {[callId |-> 1, msg |-> "180"], [callId |-> 1, msg |-> "200"],
               [callId |-> 1, msg |-> "500"]}
  /\ rtpLog = {}
  /\ aiSent = <<>>
  /\ transLog = {}
  /\ lastOp = NoOp
  /\ ackSeen = {}
  /\ confirmedAt = [c \in CallIds |-> IF c = 1 THEN 0 ELSE -1]
  /\ nInvites = 2
  /\ nDeltas = 0
  /\ nFrames = 0
  /\ nWsCloses = 0
  /\ ExtInit

QueueNext ==
  \/ (nFrames < MaxPushes /\ processIncomingRTPAudio(nFrames + 1))
  \/ handleSessionCreated
  \/ handleSessionUpdated
  \/ (nWsCloses < MaxWsCloses /\ wsOnClose)
  \/ reconnectTimer
  \/ wsOnOpen("ws")
  \/ (reconnectDue > now /\ Tick)

QueueSpec == QueueInit /\ [][QueueNext]_vars

(***************************************************************************)
(* SIPLiveKitBridge: registration with the PBX (src/sip-livekit-bridge.js).*)
(* The clock is in seconds here.  The datagram socket stays bound, and a   *)
(* send succeeds: registerWithUCM's send callback, which runs as soon as   *)
(* the datagram has left, is part of the sending step.  The registrar      *)
(* answers each REGISTER it received at most once, at any later moment.    *)
(* regOutstanding holds the unanswered REGISTERs by their branch, with the  *)
(* time they were sent.                                                    *)
(***************************************************************************)
ResponseCodes == {200, 401, 403}

awaiting(branch) == \E r \in regOutstanding : r.branch = branch
answered(branch) == {r \in regOutstanding : r.branch # branch}

\* generateCallId, generateBranch: 13 random base-36 characters, a value not
\* used before.
freshId == nRegisters + 1

\* One REGISTER datagram leaves the socket (observation of the wire).
sendRegister(callId, seq, auth, by, outstanding) ==
  /\ nRegisters < MaxRegisters
  /\ nRegisters' = nRegisters + 1
  /\ prevRegister' = lastRegister
  /\ lastRegister' = [n |-> nRegisters + 1, callId |-> callId, cseq |-> seq,
                      branch |-> freshId, auth |-> auth, at |-> now, by |-> by,
                      stateBefore |-> registrationState]
  /\ regOutstanding' = outstanding \cup {[branch |-> freshId, at |-> now]}

registerWithUCM(by) ==
  /\ registrationCallId' = freshId
  /\ sendRegister(freshId, registrationCSeq, FALSE, by, regOutstanding)
  /\ registrationState' = "REGISTERING"
  /\ UNCHANGED registrationCSeq

\* start(): the socket is bound, the first REGISTER is sent and the health
\* monitor is started.
bridgeStart ==
  /\ healthCheckDue = -1
  /\ sipSocket = "null" /\ shutdownPhase = "running"
  /\ sipSocket' = "bound"
  /\ registerWithUCM("start")
  /\ healthCheckDue' = now + HealthCheckInterval
  /\ UNCHANGED <<registrationTimer, lastRegistrationTime, lastHealth>>
  /\ UNCHANGED <<mainVars, sipRegVars, tmVars, rtpSSRC, txnVars, registrarExpires,
                 sockVars, shutdownPhase, aip>>

scheduleReRegistration == registrationTimer' = now + (RegistrationExpires \div 2)

handleAuthenticationChallenge(hdr, outstanding) ==
  IF ~hdr
    THEN /\ regOutstanding' = outstanding
         /\ UNCHANGED <<registrationCSeq, registrationCallId, nRegisters, lastRegister,
                        prevRegister>>
    ELSE /\ registrationCSeq' = registrationCSeq + 1
         /\ registrationCallId' = freshId
         /\ sendRegister(freshId, registrationCSeq + 1, TRUE, "auth", outstanding)

\* What handleSIPResponse does with a response that carries Call-ID callId
\* and answers the request sent with this branch.
registrationResponse(callId, branch, code, hdr) ==
  IF callId # registrationCallId
    THEN /\ regOutstanding' = answered(branch)
         /\ UNCHANGED <<bridgeVars, nRegisters, lastRegister, prevRegister>>
    ELSE IF code = 200
      THEN /\ registrationState' = "REGISTERED"
           /\ lastRegistrationTime' = now
           /\ scheduleReRegistration
           /\ regOutstanding' = answered(branch)
           /\ UNCHANGED <<registrationCallId, registrationCSeq, healthCheckDue,
                          nRegisters, lastRegister, prevRegister>>
      ELSE IF code \in {401, 407}
        THEN /\ handleAuthenticationChallenge(hdr, answered(branch))
             /\ UNCHANGED <<registrationState, registrationTimer,
                            lastRegistrationTime, healthCheckDue>>
        ELSE /\ registrationState' = "FAILED"
             /\ regOutstanding' = answered(branch)
             /\ UNCHANGED <<registrationCallId, registrationCSeq, registrationTimer,
                            lastRegistrationTime, healthCheckDue, nRegisters,
                            lastRegister, prevRegister>>

\* A response datagram: Call-ID callId, status code, and whether it carries
\* a WWW-Authenticate or Proxy-Authenticate header.
handleSIPResponse(callId, code, hdr) ==
  /\ sipSocket = "bound"
  /\ awaiting(callId)
  /\ registrationResponse(callId, callId, code, hdr)
  /\ UNCHANGED lastHealth
  /\ UNCHANGED clientVars

\* The setTimeout of scheduleReRegistration fires.
reRegistrationTimer ==
  /\ registrationTimer >= 0
  /\ registrationTimer <= now
  /\ registrationTimer' = -1
  /\ registerWithUCM("refresh")
  /\ UNCHANGED <<lastRegistrationTime, healthCheckDue, lastHealth>>
  /\ UNCHANGED clientVars

\* now - lastRegistrationTime, or -1 for null.
timeSinceLastRegistration ==
  IF lastRegistrationTime # -1 THEN now - lastRegistrationTime ELSE -1

performSelfLivenessCheck ==
  [socketActive |-> TRUE,
   registrationValid |-> /\ registrationState = "REGISTERED"
                         /\ lastRegistrationTime # -1
                         /\ timeSinceLastRegistration < RegistrationExpires,
   timingHealthy |-> /\ lastRegistrationTime # -1
                     /\ \/ timeSinceLastRegistration < StuckRegistering
                        \/ registrationState = "REGISTERED",
   networkReachable |-> TRUE]

isAlive ==
  LET checks == performSelfLivenessCheck
  IN  checks.socketActive /\ checks.registrationValid /\ checks.timingHealthy
        /\ checks.networkReachable

healthCheckFailed ==
  \/ registrationState \in {"UNREGISTERED", "FAILED"}
  \/ registrationState = "REGISTERING" /\ timeSinceLastRegistration > StuckRegistering
  \/ lastRegistrationTime # -1
       /\ 10 * timeSinceLastRegistration > 6 * RegistrationExpires
  \/ ~isAlive

\* The run sends an OPTIONS ping (sendKeepAlive).
sendsKeepAlive ==
  /\ ~healthCheckFailed
  /\ registrationState = "REGISTERED"
  /\ timeSinceLastRegistration > KeepAliveAfter

\* When the last OPTIONS ping before this run was sent, -1 = never.
lastPing ==
  IF lastHealth.at = -1 THEN -1
  ELSE IF lastHealth.keepAlive THEN lastHealth.at ELSE lastHealth.prevPing

\* One run of the health-check setInterval callback: checkRegistrationHealth.
checkRegistrationHealth ==
  /\ healthCheckDue >= 0
  /\ healthCheckDue <= now
  /\ healthCheckDue' = healthCheckDue + HealthCheckInterval
  /\ lastHealth' = [at |-> now, state |-> registrationState, alive |-> isAlive,
                    reRegister |-> healthCheckFailed,
                    keepAlive |-> sendsKeepAlive,
                    prevPing |-> lastPing]
  /\ IF healthCheckFailed
       THEN registerWithUCM("health")
       ELSE UNCHANGED <<registrationState, registrationCallId, registrationCSeq,
                        nRegisters, lastRegister, prevRegister, regOutstanding>>
  /\ UNCHANGED <<registrationTimer, lastRegistrationTime>>
  /\ UNCHANGED clientVars

\* The clock moves to the next deadline.
BridgeDue == {registrationTimer, healthCheckDue} \ {-1}

BridgeTick ==
  /\ BridgeDue # {}
  /\ \A d \in BridgeDue : d > now
  /\ \E d \in BridgeDue :
       /\ \A e \in BridgeDue : d <= e
       /\ d <= MaxBridgeTime
       /\ now' = d
  /\ UNCHANGED <<sessions, currentSession, rtpSocket, answerTimers, rtpTimers,
                 rtpSequenceNumber, rtpTimestamp>>
  /\ UNCHANGED <<wsmVars, aiVars, obsVars, cntVars, extVars>>

BridgeNext ==
  \/ bridgeStart
  \/ \E callId \in 1..MaxRegisters, code \in ResponseCodes, hdr \in BOOLEAN :
       handleSIPResponse(callId, code, hdr)
  \/ reRegistrationTimer
  \/ checkRegistrationHealth
  \/ BridgeTick

BridgeSpec == Init /\ [][BridgeNext]_vars

(***************************************************************************)
(* The bridge's registration with a registrar that grants a shorter expiry *)
(* than the 3600 s every REGISTER asks for.  A 200 OK carries the granted  *)
(* value; handleSIPResponse reads the status code and the Call-ID only.     *)
(***************************************************************************)
ShortExpiries == {10, 20}

\* The expiry a 200 OK grants: the requested one, or the registrar's limit.
grantedExpires ==
  IF registrarExpires < RegistrationExpires THEN registrarExpires ELSE RegistrationExpires

\* The registrar's limit, set before the bridge starts.
registrarPolicy(e) ==
  /\ healthCheckDue = -1
  /\ registrarExpires = RegistrationExpires
  /\ registrarExpires' = e
  /\ UNCHANGED <<mainVars, bridgeVars, regObsVars, sipRegVars, tmVars, rtpSSRC, txnVars,
                 sockVars, lifeVars, aip>>

LivenessNext ==
  \/ \E e \in ShortExpiries : registrarPolicy(e)
  \/ bridgeStart
  \/ \E callId \in 1..MaxRegisters, code \in {200, 403} :
       handleSIPResponse(callId, code, FALSE)
  \/ reRegistrationTimer
  \/ checkRegistrationHealth
  \/ BridgeTick

LivenessSpec == Init /\ [][LivenessNext]_vars

(***************************************************************************)
(* The bridge's socket recovery.  The clock is in seconds.  A datagram     *)
(* socket emits 'close' only after close() was called on it, on the next   *)
(* tick; the new socket binds at once, the port being free again.  So one  *)
(* run of attemptSocketRecovery comprises the close of the old socket, the *)
(* 'close' event of the old socket (handleSocketClose) and the completion  *)
(* of startSIPServer.                                                      *)
(***************************************************************************)
sockFrame == <<mainVars, sipRegVars, tmVars, rtpSSRC, txnVars, registrarExpires,
              shutdownPhase, aip>>

\* handleSocketClose: another recovery in 5 s.
handleSocketClose(timers) == Append(timers, now + SocketCloseDelay)

\* attemptSocketRecovery: the current socket, if there is one, is closed and
\* emits 'close'; startSIPServer binds a new one.
attemptSocketRecovery(op, errors, count, timers) ==
  /\ socketErrorCount' = 0
  /\ recoveryTimers' = IF sipSocket = "bound" THEN handleSocketClose(timers) ELSE timers
  /\ sipSocket' = "bound"
  /\ settleTimers' = Append(settleTimers, now + SettleDelay)
  /\ lastSock' = [n |-> lastSock.n + 1, op |-> op, errors |-> errors, count |-> count,
                  rebinds |-> lastSock.rebinds + 1]

\* An 'error' event of the socket, or a failed keep-alive send.
handleSocketError ==
  /\ sipSocket = "bound"
  /\ lastSock.errors < MaxSocketErrors
  /\ LET count == socketErrorCount + 1
     IN IF count >= SocketErrorLimit
          THEN attemptSocketRecovery("error", lastSock.errors + 1, count, recoveryTimers)
          ELSE /\ socketErrorCount' = count
               /\ lastSock' = [lastSock EXCEPT !.n = @ + 1, !.op = "error",
                                               !.errors = @ + 1, !.count = count]
               /\ UNCHANGED <<recoveryTimers, settleTimers, sipSocket>>
  /\ UNCHANGED <<bridgeVars, regObsVars, sockFrame>>

\* The timer of handleSocketClose fires.
recoveryTimer ==
  /\ recoveryTimers # <<>>
  /\ Head(recoveryTimers) <= now
  /\ attemptSocketRecovery("timer", lastSock.errors, socketErrorCount, Tail(recoveryTimers))
  /\ UNCHANGED <<bridgeVars, regObsVars, sockFrame>>

\* The 2-second timer of attemptSocketRecovery fires: registerWithUCM.
settleTimer ==
  /\ settleTimers # <<>>
  /\ Head(settleTimers) <= now
  /\ settleTimers' = Tail(settleTimers)
  /\ IF sipSocket = "bound"
       THEN registerWithUCM("recovery")
       ELSE \* sipSocket is null: send throws after the Call-ID was replaced
            /\ registrationCallId' = freshId
            /\ UNCHANGED <<registrationState, registrationCSeq, nRegisters, lastRegister,
                           prevRegister, regOutstanding>>
  /\ lastSock' = [lastSock EXCEPT !.n = @ + 1, !.op = "register"]
  /\ UNCHANGED <<registrationTimer, lastRegistrationTime, healthCheckDue, lastHealth>>
  /\ UNCHANGED <<socketErrorCount, recoveryTimers, sipSocket, sockFrame>>

SocketDue == {Head(q) : q \in {recoveryTimers, settleTimers} \ {<<>>}}

SocketTick ==
  /\ now < MaxSocketTime
  /\ \A d \in SocketDue : d > now
  /\ now' = now + 1
  /\ UNCHANGED <<sessions, currentSession, rtpSocket, answerTimers, rtpTimers,
                 rtpSequenceNumber, rtpTimestamp>>
  /\ UNCHANGED <<wsmVars, aiVars, obsVars, cntVars, extVars>>

SocketNext ==
  \/ bridgeStart
  \/ handleSocketError
  \/ recoveryTimer
  \/ settleTimer
  \/ SocketTick

SocketSpec == Init /\ [][SocketNext]_vars

(***************************************************************************)
(* The bridge's shutdown().  unregisterFromUCM does not wait for its send: *)
(* shutdown goes on after one microtask, and waits for I/O only in         *)
(* cleanupCall (deleteRoom), once per active call.  With no active call    *)
(* the socket is closed before the un-REGISTER's send has completed, so    *)
(* its outcome (sent) is open; with an active call the datagram has left   *)
(* and the socket stays open, and receives, until the calls are cleaned    *)
(* up.  The timers are cleared before the calls are cleaned up.            *)
(***************************************************************************)
unregisterFromUCM(sent) ==
  /\ registrationCSeq' = registrationCSeq + 1
  /\ IF sent
       THEN /\ sendRegister(registrationCallId, registrationCSeq + 1, FALSE, "unregister",
                            regOutstanding)
            /\ registrationState' = "UNREGISTERED"
       ELSE UNCHANGED <<registrationState, nRegisters, lastRegister, prevRegister,
                        regOutstanding>>
  /\ UNCHANGED registrationCallId

\* sipSocket.close() by shutdown: the socket's 'close' event follows.
closeSipSocket ==
  /\ sipSocket' = "null"
  /\ recoveryTimers' = handleSocketClose(recoveryTimers)

shutdown(activeCalls, sent) ==
  /\ sipSocket = "bound" /\ shutdownPhase = "running"
  /\ activeCalls => sent
  /\ IF registrationState = "REGISTERED"
       THEN unregisterFromUCM(sent)
       ELSE UNCHANGED <<registrationState, registrationCallId, registrationCSeq,
                        nRegisters, lastRegister, prevRegister, regOutstanding>>
  /\ registrationTimer' = -1
  /\ healthCheckDue' = -1
  /\ IF activeCalls
       THEN shutdownPhase' = "closing" /\ UNCHANGED <<sipSocket, recoveryTimers>>
       ELSE shutdownPhase' = "closed" /\ closeSipSocket
  /\ lastSock' = [lastSock EXCEPT !.n = @ + 1, !.op = "shutdown"]
  /\ UNCHANGED <<lastRegistrationTime, lastHealth, socketErrorCount, settleTimers>>
  /\ UNCHANGED <<mainVars, sipRegVars, tmVars, rtpSSRC, txnVars, registrarExpires, aip>>

\* The last cleanupCall of shutdown() has returned.
shutdownFinish ==
  /\ shutdownPhase = "closing"
  /\ shutdownPhase' = "closed"
  /\ closeSipSocket
  /\ lastSock' = [lastSock EXCEPT !.n = @ + 1, !.op = "closed"]
  /\ UNCHANGED <<bridgeVars, regObsVars, socketErrorCount, settleTimers>>
  /\ UNCHANGED <<mainVars, sipRegVars, tmVars, rtpSSRC, txnVars, registrarExpires, aip>>

\* The registrar's response to the un-REGISTER, the last REGISTER sent: it
\* carries the Call-ID of the un-REGISTER.
handleSIPResponseToUnregister(code) ==
  /\ sipSocket = "bound"
  /\ lastRegister.by = "unregister"
  /\ awaiting(lastRegister.branch)
  /\ registrationResponse(lastRegister.callId, lastRegister.branch, code, FALSE)
  /\ UNCHANGED lastHealth
  /\ UNCHANGED clientVars

\* The clock moves to the next pending socket timer.
SocketJump ==
  /\ SocketDue # {}
  /\ \A d \in SocketDue : d > now /\ d <= MaxSocketTime
  /\ now' = CHOOSE d \in SocketDue : \A e \in SocketDue : d <= e
  /\ UNCHANGED <<sessions, currentSession, rtpSocket, answerTimers, rtpTimers,
                 rtpSequenceNumber, rtpTimestamp>>
  /\ UNCHANGED <<wsmVars, aiVars, obsVars, cntVars, extVars>>

ShutdownNext ==
  \/ bridgeStart
  \/ \E callId \in 1..MaxRegisters, code \in ResponseCodes, hdr \in BOOLEAN :
       handleSIPResponse(callId, code, hdr)
  \/ \E activeCalls, sent \in BOOLEAN : shutdown(activeCalls, sent)
  \/ shutdownFinish
  \/ handleSIPResponseToUnregister(200)
  \/ recoveryTimer
  \/ settleTimer
  \/ SocketJump

ShutdownSpec == Init /\ [][ShutdownNext]_vars

(***************************************************************************)
(* AIProcessor (src/ai-processor.js).  aip.socks[s] is the state of the    *)
(* s-th WebSocket created: "connecting", "open", "errored" ('error' was    *)
(* emitted, 'close' is still to come), "aborted" (closed while connecting: *)
(* 'error' and 'close' are to come), "closing" (closed while open: 'close' *)
(* is to come) or "closed".  Every socket keeps the handlers connect()     *)
(* attached to it.  A reconnect timer is a bare setTimeout whose handle is *)
(* not kept: aip.timers counts the pending ones.  A socket that fails      *)
(* while connecting emits 'error' and then 'close'; an open socket either  *)
(* fails the same way or is closed by the server ('close' only).           *)
(***************************************************************************)
aipFrame == <<mainVars, bridgeVars, regObsVars, sipRegVars, tmVars, rtpSSRC, txnVars,
             registrarExpires, sockVars, lifeVars>>

aipSet(a, s, st) == [a EXCEPT !.socks = [@ EXCEPT ![s] = st]]

\* connect(): a new WebSocket becomes this.ws.
AIProcessor_connect(a) ==
  [a EXCEPT !.ws = Len(a.socks) + 1, !.socks = Append(@, "connecting"),
            !.startedAfterStop = @ \/ a.stopped]

AIProcessor_scheduleReconnect(a) ==
  LET n == a.reconnectAttempts + 1
      doubled == a.reconnectDelay * 2
  IN IF n <= AipMaxReconnectAttempts
       THEN [a EXCEPT !.reconnectAttempts = n, !.timers = @ + 1, !.scheduled = @ + 1,
                      !.reconnectDelay = IF doubled < AipMaxReconnectDelay
                                           THEN doubled ELSE AipMaxReconnectDelay]
       ELSE [a EXCEPT !.reconnectAttempts = n]

\* start(): the first connect().
AIProcessor_start ==
  /\ aip.socks = <<>> /\ ~aip.stopped
  /\ aip' = AIProcessor_connect(aip)
  /\ UNCHANGED aipFrame

\* The 'open' handler of socket s.
AIProcessor_onOpen(s) ==
  /\ s \in DOMAIN aip.socks
  /\ aip.socks[s] = "connecting"
  /\ aip' = [aipSet(aip, s, "open") EXCEPT !.connected = TRUE, !.reconnectAttempts = 0]
  /\ UNCHANGED aipFrame

\* The 'error' handler of socket s.
AIProcessor_onError(s) ==
  /\ s \in DOMAIN aip.socks
  /\ aip.socks[s] \in {"connecting", "open", "aborted"}
  /\ LET a == [aipSet(aip, s, "errored") EXCEPT
                 !.connected = FALSE,
                 !.failures = IF aip.socks[s] = "aborted" THEN @ ELSE @ + 1]
     IN aip' = IF a.reconnectAttempts = 0 THEN a ELSE AIProcessor_scheduleReconnect(a)
  /\ UNCHANGED aipFrame

\* The 'close' handler of socket s.
AIProcessor_onClose(s) ==
  /\ s \in DOMAIN aip.socks
  /\ aip.socks[s] \in {"open", "errored", "closing"}
  /\ LET a == [aipSet(aip, s, "closed") EXCEPT
                 !.connected = FALSE,
                 !.failures = IF aip.socks[s] = "open" THEN @ + 1 ELSE @]
     IN aip' = IF a.reconnectAttempts < AipMaxReconnectAttempts
                 THEN AIProcessor_scheduleReconnect(a) ELSE a
  /\ UNCHANGED aipFrame

\* A setTimeout of scheduleReconnect fires: connect().
AIProcessor_reconnectTimer ==
  /\ aip.timers > 0
  /\ Len(aip.socks) < MaxAipSockets
  /\ aip' = AIProcessor_connect([aip EXCEPT !.timers = @ - 1])
  /\ UNCHANGED aipFrame

\* stop(): this.ws, if set, is closed and forgotten.
AIProcessor_stop ==
  /\ aip.socks # <<>> /\ ~aip.stopped
  /\ LET st == aip.socks[aip.ws]
         a == IF st = "connecting" THEN aipSet(aip, aip.ws, "aborted")
              ELSE IF st = "open" THEN aipSet(aip, aip.ws, "closing")
              ELSE aip
     IN aip' = [a EXCEPT !.ws = 0, !.connected = FALSE, !.stopped = TRUE]
  /\ UNCHANGED aipFrame

AipNext ==
  \/ AIProcessor_start
  \/ \E s \in 1..MaxAipSockets : AIProcessor_onOpen(s)
  \/ \E s \in 1..MaxAipSockets : AIProcessor_onError(s)
  \/ \E s \in 1..MaxAipSockets : AIProcessor_onClose(s)
  \/ AIProcessor_reconnectTimer
  \/ AIProcessor_stop

AipSpec == Init /\ [][AipNext]_vars

(***************************************************************************)
(* VoiceAISIPClient: its own registration (src/index.js).  The Call-ID is  *)
(* generated once, in initSIPClient; a REGISTER is sent when the socket    *)
(* starts listening and on every authentication challenge.                 *)
(***************************************************************************)
ClientCallId == 1

sendRegisterRequest(withAuth, outstanding) ==
  /\ nRegisters < MaxRegisters
  /\ nRegisters' = nRegisters + 1
  /\ prevRegister' = lastRegister
  /\ lastRegister' = [n |-> nRegisters + 1, callId |-> ClientCallId, cseq |-> cseq,
                      branch |-> freshId, auth |-> withAuth, at |-> now,
                      by |-> IF withAuth THEN "auth" ELSE "start",
                      stateBefore |-> IF isRegistered THEN "REGISTERED"
                                                      ELSE "UNREGISTERED"]
  /\ cseq' = cseq + 1
  /\ regOutstanding' = outstanding \cup {[branch |-> freshId, at |-> now]}

\* The socket's 'listening' event.
sipListening ==
  /\ nRegisters = 0
  /\ sendRegisterRequest(FALSE, regOutstanding)
  /\ UNCHANGED <<isRegistered, lastHealth>>
  /\ UNCHANGED <<mainVars, bridgeVars, tmVars, auxVars>>

\* handleAuthChallenge: realm and nonce are looked for in the message.
handleAuthChallenge(params, outstanding) ==
  IF params
    THEN sendRegisterRequest(TRUE, outstanding)
    ELSE /\ regOutstanding' = outstanding
         /\ UNCHANGED <<cseq, nRegisters, lastRegister, prevRegister>>

\* handleSIPMessage on the response to the REGISTER with this branch.
handleRegisterResponse(branch, code, params) ==
  /\ awaiting(branch)
  /\ IF code \in {401, 407}
       THEN /\ handleAuthChallenge(params, answered(branch))
            /\ UNCHANGED isRegistered
       ELSE /\ isRegistered' = (isRegistered \/ code = 200)
            /\ regOutstanding' = answered(branch)
            /\ UNCHANGED <<cseq, nRegisters, lastRegister, prevRegister>>
  /\ UNCHANGED lastHealth
  /\ UNCHANGED <<mainVars, bridgeVars, tmVars, auxVars>>

RegisterNext ==
  \/ sipListening
  \/ \E branch \in 1..MaxRegisters, code \in ResponseCodes, params \in BOOLEAN :
       handleRegisterResponse(branch, code, params)

\* The registration of VoiceAISIPClient, and the clock.
RegisterSpec == Init /\ [][RegisterNext \/ Tick]_vars

(***************************************************************************)
(* ReconnectSpec: the AI link fails again and again.  The clock moves to   *)
(* the pending reconnect.                                                  *)
(***************************************************************************)
ReconnectTick ==
  /\ reconnectDue > now
  /\ now' = reconnectDue
  /\ transLog' = {}
  /\ aiSent' = <<>>
  /\ lastOp' = NoOp
  /\ UNCHANGED <<sessions, currentSession, rtpSocket, answerTimers, rtpTimers,
                 rtpSequenceNumber, rtpTimestamp>>
  /\ UNCHANGED <<wsmVars, aiVars, sipOut, rtpLog, ackSeen, confirmedAt, cntVars>>
  /\ UNCHANGED extVars

ReconnectNext ==
  \/ wsOnOpen("undefined")
  \/ (nWsCloses < MaxReconnectCloses /\ wsOnClose)
  \/ wsOnError
  \/ reconnectTimer
  \/ ReconnectTick

ReconnectSpec == Init /\ [][ReconnectNext]_vars

(***************************************************************************)
(* RtpSpec: AI audio towards the caller of an answered call.  The deltas   *)
(* arrive one after another within the pacing time of their packets; the   *)
(* client's sequence number, timestamp and SSRC are the constructor's      *)
(* random draws.                                                           *)
(***************************************************************************)
RtpLens == {160, 200, 320}

RtpInit ==
  /\ now = 0
  /\ sessions = [c \in CallIds |->
                   IF c = 1 THEN [state |-> "CONFIRMED", rtpPort |-> TRUE,
                                  remoteSdp |-> TRUE, sessionTimer |-> TRUE,
                                  mediaDue |-> MediaValidationDelay]
                   ELSE NoSession]
  /\ currentSession = [NullSession EXCEPT !.id = 1, !.callId = 1, !.callerInfo = "pbx"]
  /\ rtpSocket = 1
  /\ answerTimers = {}
  /\ rtpTimers = {}
  /\ rtpSequenceNumber \in {0, SeqModulus - 2}
  /\ rtpTimestamp \in {0, TimestampLimit - 2 * MaxPayloadSize}
  /\ rtpSSRC \in SsrcDraws
  /\ wsState = "open"
  /\ isConnecting = FALSE
  /\ reconnectAttempts = 0
  /\ reconnectDue = -1
  /\ isRealtimeConnected = TRUE
  /\ realtimeWS = "undefined"
  /\ realtimeSessionId = FALSE
  /\ sessionConfigured = FALSE
  /\ pendingAudioQueue = <<>>
  /\ sipOut = {[callId |-> 1, msg |-> "180"], [callId |-> 1, msg |-> "200"]}
  /\ rtpLog = {}
  /\ aiSent = <<>>
  /\ transLog = {}
  /\ lastOp = NoOp
  /\ ackSeen = {}
  /\ confirmedAt = [c \in CallIds |-> IF c = 1 THEN 0 ELSE -1]
  /\ nInvites = 1
  /\ nDeltas = 0
  /\ nFrames = 0
  /\ nWsCloses = 0
  /\ ExtInitButSsrc

RtpNext ==
  \/ \E len \in RtpLens : (nDeltas < MaxRtpDeltas /\ handleResponseAudioDelta(len))
  \/ \E p \in rtpTimers : rtpPacketTimer(p)

RtpSpec == RtpInit /\ [][RtpNext]_vars

(***************************************************************************)
(* TimeoutManager (timeout-manager): the named timer registry, driven by   *)
(* arbitrary calls as any owner of the class may make them.  The manager   *)
(* keeps one map for one-shot timers and one for repeating ones; each      *)
(* entry holds the id of a timer of the runtime.  A callback is modelled   *)
(* as not calling back into the manager: such calls are steps of their     *)
(* own.  Durations are in ticks.                                           *)
(***************************************************************************)
TimerDurations == {1, 2}
TimerKinds == {"timeout", "interval"}

\* The runtime's live timers of one kind registered under one name.
tmLive(kind, name) == {t \in nodeTimers : t.kind = kind /\ t.name = name}

\* A clear that finds the entry and leaves the runtime's timer running.
clearedNone(kind, m, name) == {}

\* clearTimeout(name) / clearInterval(name): the runtime timer that the entry
\* of the map holds, if there is an entry.
clearedTimers(kind, m, name) ==
  {t \in nodeTimers : t.kind = kind /\ m[name] # 0 /\ t.id = m[name]}

cancelRecords(old, by) ==
  {[id |-> t.id, kind |-> t.kind, name |-> t.name, due |-> t.due, by |-> by] : t \in old}

tmFrame == <<sessions, currentSession, rtpSocket, answerTimers, rtpTimers,
             rtpSequenceNumber, rtpTimestamp, wsmVars, aiVars, obsVars, cntVars,
             bridgeVars, regObsVars, sipRegVars, auxVars>>

\* setTimeout(name, callback, duration).
tmSetTimeout(name, d) ==
  /\ nTimers < MaxTimers
  /\ LET old == clearedTimers("timeout", timeouts, name)
         id  == nTimers + 1
     IN /\ nodeTimers' = (nodeTimers \ old) \cup
               {[id |-> id, kind |-> "timeout", name |-> name, duration |-> d,
                 due |-> now + d]}
        /\ tmCancelled' = tmCancelled \cup cancelRecords(old, "set")
        /\ timeouts' = [timeouts EXCEPT ![name] = id]
        /\ nTimers' = id
  /\ tmFired' = 0
  /\ UNCHANGED <<now, intervals, tmFrame>>

\* clearTimeout(name).
tmClearTimeout(name) ==
  /\ timeouts[name] # 0
  /\ LET old == clearedTimers("timeout", timeouts, name)
     IN /\ nodeTimers' = nodeTimers \ old
        /\ tmCancelled' = tmCancelled \cup cancelRecords(old, "clear")
  /\ timeouts' = [timeouts EXCEPT ![name] = 0]
  /\ tmFired' = 0
  /\ UNCHANGED <<now, intervals, nTimers, tmFrame>>

\* setInterval(name, callback, duration).
tmSetInterval(name, d) ==
  /\ nTimers < MaxTimers
  /\ LET old == clearedTimers("interval", intervals, name)
         id  == nTimers + 1
     IN /\ nodeTimers' = (nodeTimers \ old) \cup
               {[id |-> id, kind |-> "interval", name |-> name, duration |-> d,
                 due |-> now + d]}
        /\ tmCancelled' = tmCancelled \cup cancelRecords(old, "set")
        /\ intervals' = [intervals EXCEPT ![name] = id]
        /\ nTimers' = id
  /\ tmFired' = 0
  /\ UNCHANGED <<now, timeouts, tmFrame>>

\* clearInterval(name).
tmClearInterval(name) ==
  /\ intervals[name] # 0
  /\ LET old == clearedTimers("interval", intervals, name)
     IN /\ nodeTimers' = nodeTimers \ old
        /\ tmCancelled' = tmCancelled \cup cancelRecords(old, "clear")
  /\ intervals' = [intervals EXCEPT ![name] = 0]
  /\ tmFired' = 0
  /\ UNCHANGED <<now, timeouts, nTimers, tmFrame>>

\* A one-shot timer of the runtime expires: the wrapper deletes the entry of
\* its name and runs the callback.
tmTimeoutExpires(t) ==
  /\ t \in nodeTimers
  /\ t.kind = "timeout"
  /\ t.due <= now
  /\ nodeTimers' = nodeTimers \ {t}
  /\ timeouts' = [timeouts EXCEPT ![t.name] = 0]
  /\ tmFired' = t.id
  /\ UNCHANGED <<now, intervals, tmCancelled, nTimers, tmFrame>>

\* A repeating timer of the runtime expires: the callback runs and the
\* runtime schedules the next run.
tmIntervalExpires(t) ==
  /\ t \in nodeTimers
  /\ t.kind = "interval"
  /\ t.due <= now
  /\ nodeTimers' = (nodeTimers \ {t}) \cup {[t EXCEPT !.due = now + t.duration]}
  /\ tmFired' = t.id
  /\ UNCHANGED <<now, timeouts, intervals, tmCancelled, nTimers, tmFrame>>

\* clearAll(): every entry of both maps is cleared.
tmClearAll ==
  /\ \E n \in TimerNames : timeouts[n] # 0 \/ intervals[n] # 0
  /\ LET old == UNION {clearedTimers("timeout", timeouts, n) \cup
                         clearedTimers("interval", intervals, n) : n \in TimerNames}
     IN /\ nodeTimers' = nodeTimers \ old
        /\ tmCancelled' = tmCancelled \cup cancelRecords(old, "clearAll")
  /\ timeouts' = [n \in TimerNames |-> 0]
  /\ intervals' = [n \in TimerNames |-> 0]
  /\ tmFired' = 0
  /\ UNCHANGED <<now, nTimers, tmFrame>>

\* The clock advances when no timer of the runtime is due.
TmTick ==
  /\ now < MaxTime
  /\ \A t \in nodeTimers : t.due > now
  /\ now' = now + 1
  /\ tmFired' = 0
  /\ UNCHANGED <<timeouts, intervals, nodeTimers, tmCancelled, nTimers, tmFrame>>

TimeoutNext ==
  \/ \E n \in TimerNames, d \in TimerDurations : tmSetTimeout(n, d)
  \/ \E n \in TimerNames : tmClearTimeout(n)
  \/ \E n \in TimerNames, d \in TimerDurations : tmSetInterval(n, d)
  \/ \E n \in TimerNames : tmClearInterval(n)
  \/ \E t \in nodeTimers : tmTimeoutExpires(t)
  \/ \E t \in nodeTimers : tmIntervalExpires(t)
  \/ tmClearAll
  \/ TmTick

TimeoutSpec == Init /\ [][TimeoutNext]_vars

(***************************************************************************)
(* SIPTransaction (session-manager): one client transaction, from its      *)
(* construction to its end.  The sender of the request starts the          *)
(* retransmission timer once; the timer then re-arms itself.               *)
(***************************************************************************)
TxnMethods == {"INVITE", "REGISTER", "BYE"}
StatusCodes == {100, 180, 200, 404}

uncappedInterval(n) == TimerT1 * (2 ^ n)

\* SIPTransaction.startRetransmissionTimer: the interval armed when n
\* retransmissions have been made, and the time from the request to the
\* 'timeout' event of a transaction that gets no response.
retransmissionInterval(n) ==
  IF TimerT1 * (2 ^ n) < TimerT2 THEN TimerT1 * (2 ^ n) ELSE TimerT2

RECURSIVE timerSum(_)
timerSum(n) == IF n < 0 THEN 0 ELSE retransmissionInterval(n) + timerSum(n - 1)

registerTransactionTimeout == timerSum(MaxRetransmissionsNonInvite)

maxRetransmissions(method) ==
  IF method = "INVITE" THEN MaxRetransmissionsInvite ELSE MaxRetransmissionsNonInvite

txnFrame == <<mainVars, bridgeVars, regObsVars, sipRegVars, tmVars, rtpSSRC,
             registrarExpires, sockVars, lifeVars, aip>>

\* new SIPTransaction(method, callId).
createTransaction(method) ==
  /\ txn = NoTxn
  /\ txn' = [method |-> method, state |-> "TRYING", retransmissions |-> 0,
             timer |-> 0, statusCode |-> 0]
  /\ txnObs' = [NoTxnObs EXCEPT !.event = "created"]
  /\ UNCHANGED txnFrame

\* startRetransmissionTimer(callback), called by the sender of the request.
startRetransmissionTimer ==
  /\ txn.state = "TRYING"
  /\ txn.timer = 0
  /\ txnObs.armed = <<>>
  /\ LET actualInterval == retransmissionInterval(txn.retransmissions)
     IN /\ txn' = [txn EXCEPT !.timer = actualInterval]
        /\ txnObs' = [txnObs EXCEPT !.armed = Append(@, actualInterval),
                                    !.event = "armed"]
  /\ UNCHANGED txnFrame

\* The timer's callback: retransmit and re-arm, or give the transaction up
\* (setState('TERMINATED'), which stops the timer, then emit('timeout')).
retransmissionTimerFires ==
  /\ txn.timer # 0
  /\ IF txn.retransmissions < maxRetransmissions(txn.method)
     THEN LET n == txn.retransmissions + 1
              actualInterval == retransmissionInterval(n)
          IN /\ txn' = [txn EXCEPT !.retransmissions = n, !.timer = actualInterval]
             /\ txnObs' = [txnObs EXCEPT !.armed = Append(@, actualInterval),
                                         !.sent = @ + 1,
                                         !.elapsed = @ + txn.timer,
                                         !.event = "retransmit"]
     ELSE /\ txn' = [txn EXCEPT !.state = "TERMINATED", !.timer = 0]
          /\ txnObs' = [txnObs EXCEPT !.elapsed = @ + txn.timer,
                                      !.event = "timeout"]
  /\ UNCHANGED txnFrame

\* handleResponse(statusCode, response): a provisional response leaves the
\* timer running, a final response stops it.
handleResponse(statusCode) ==
  /\ txn # NoTxn
  /\ txn' = [txn EXCEPT !.statusCode = statusCode,
                        !.state = IF statusCode < 200 THEN "PROCEEDING" ELSE "COMPLETED",
                        !.timer = IF statusCode < 200 THEN @ ELSE 0]
  /\ txnObs' = [txnObs EXCEPT !.event = "response"]
  /\ UNCHANGED txnFrame

TransactionNext ==
  \/ \E m \in TxnMethods : createTransaction(m)
  \/ startRetransmissionTimer
  \/ retransmissionTimerFires
  \/ \E code \in StatusCodes : handleResponse(code)

TransactionSpec == Init /\ [][TransactionNext]_vars

(***************************************************************************)
(* Properties.                                                             *)
(***************************************************************************)
LateStates == {"CONFIRMED", "MEDIA_READY", "AI_ACTIVE"}

\* C1: an AI audio delta is turned into RTP packets to the caller only while
\* the owning session is in AI_ACTIVE: every RTP packet sent was sent in that state.
C1_RtpOnlyInAiActive ==
  \A r \in rtpLog : r.state = "AI_ACTIVE"

\* C2 (as stated): the only state changes are IDLE -> PROCEEDING,
\* PROCEEDING -> CONFIRMED, CONFIRMED -> MEDIA_READY, MEDIA_READY -> AI_ACTIVE
\* and any state -> TERMINATED.
C2_StatedPairs ==
  {<<"IDLE", "PROCEEDING">>, <<"PROCEEDING", "CONFIRMED">>,
   <<"CONFIRMED", "MEDIA_READY">>, <<"MEDIA_READY", "AI_ACTIVE">>}
  \cup {<<st, "TERMINATED">> : st \in SessionStates}

C2_AcceptedPairs ==
  {<<"IDLE", "CALLING">>, <<"IDLE", "PROCEEDING">>, <<"CALLING", "PROCEEDING">>,
   <<"CALLING", "CONFIRMED">>, <<"PROCEEDING", "CONFIRMED">>,
   <<"CONFIRMED", "MEDIA_READY">>, <<"MEDIA_READY", "AI_ACTIVE">>}
  \cup {<<st, "TERMINATED">> : st \in SessionStates \ {"TERMINATED"}}

C2_RequestsFollowTable ==
  \A r \in transLog :
    IF <<r.from, r.to>> \in C2_AcceptedPairs
    THEN r.after = r.to /\ ~r.warned
    ELSE r.after = r.from /\ r.warned

C2_StepsFollowTable ==
  \A c \in CallIds :
    (sessions[c].state # "NONE" /\ sessions'[c].state # sessions[c].state)
      => <<sessions[c].state, sessions'[c].state>> \in C2_AcceptedPairs

C3_ConfirmedOnlyAfterAck ==
  \A c \in CallIds : sessions[c].state \in LateStates => c \in ackSeen

\* C4 (as stated): a BYE from an address other than the caller's, arriving while
\* the welcome message is active, gets 200 OK and leaves the call live, its
\* session in the state it had, the RTP socket open and the welcome flag set.
C4_ByeIgnored ==
  /\ lastOp.response = "200 OK"
  /\ HasCall
  /\ currentSession.callId = lastOp.callId
  /\ currentSession.welcomeMessageActive
  /\ sessions[lastOp.callId].state = lastOp.stateBefore
  /\ rtpSocket # 0

C5_CallerByeTerminates ==
  (lastOp.op = "bye" /\ lastOp.matched /\ lastOp.fromCaller /\ ~lastOp.welcome)
    => (sessions[lastOp.callId].state = "TERMINATED" /\ ~HasCall /\ rtpSocket = 0)

\* C6: a BYE that is not a legitimate caller disconnect, arriving while an AI
\* response is in progress, is deferred: the call stays and its pending-cleanup
\* flag is set (for the teardown at the next response.done).
C6_ByeDeferredDuringResponse ==
  (lastOp.op = "bye" /\ lastOp.matched /\ ~lastOp.legit /\ lastOp.aiBusy
     /\ ~lastOp.welcome)
    => (HasCall /\ currentSession.pendingCleanup)

\* C7: a BYE is treated as a legitimate caller disconnect exactly when it comes
\* from the caller's address, or its Reason header names user, normal or hangup,
\* or the session reached CONFIRMED more than 3 s ago.
C7_LegitimateIff ==
  (lastOp.op = "bye" /\ lastOp.matched)
    => (lastOp.legit <=> (lastOp.fromCaller \/ lastOp.reasonOk
                          \/ lastOp.sinceConfirmed > LegitimateAfter))

\* C8: a caller frame submitted while the AI link is connected but the AI
\* session is not yet configured is put on the pending queue.
C8_UnconfiguredFramesQueued ==
  (lastOp.op = "rtpIn" /\ lastOp.connected /\ lastOp.ready /\ ~lastOp.configured)
    => (lastOp.outcome = "queued" /\ pendingAudioQueue # <<>>
        /\ pendingAudioQueue[Len(pendingAudioQueue)] = lastOp.frame)

C14_AuthRegister ==
  lastRegister.by = "auth"
    => /\ lastRegister.cseq = prevRegister.cseq + 1
       /\ lastRegister.callId # prevRegister.callId
       /\ lastRegister.auth

\* C15 (the part on requests given up): when the registrar has answered
\* nothing and a REGISTER is older than its whole retransmission schedule,
\* six retransmissions and the final timer, the registration state is FAILED.
C15_SilenceFails ==
  ( /\ nRegisters > 0
    /\ Cardinality(regOutstanding) = nRegisters
    /\ \E r \in regOutstanding : 1000 * (now - r.at) >= registerTransactionTimeout )
    => registrationState = "FAILED"

\* C16: when a CANCEL has been handled for a call whose INVITE is not yet
\* answered, a 200 OK for the CANCEL and a 487 for the INVITE have been sent
\* and the session is TERMINATED.
C16_CancelTerminates ==
  (lastOp.op = "cancel" /\ lastOp.pendingAnswer)
    => /\ [callId |-> lastOp.callId, msg |-> "200 CANCEL"] \in sipOut
       /\ [callId |-> lastOp.callId, msg |-> "487"] \in sipOut
       /\ sessions[lastOp.callId].state = "TERMINATED"

\* C17: an INVITE for a Call-ID whose session exists and whose first INVITE is
\* still being answered is a retransmission: handling it arms no timer,
\* creates or changes no session and leaves the call context as it was.
C17_RetransmissionIgnored ==
  [][ ( /\ nInvites' = nInvites + 1
        /\ sessions[currentSession'.callId].state # "NONE"
        /\ \E t \in answerTimers : t.callId = currentSession'.callId )
      => ( /\ answerTimers' = answerTimers
           /\ currentSession' = currentSession
           /\ sessions' = sessions ) ]_vars

\* C18: the responses to an INVITE come in the order 100 Trying, 180 Ringing,
\* 200 OK: a call that has been sent 180 Ringing or 200 OK has been sent
\* 100 Trying, and one that has been sent 200 OK has been sent 180 Ringing.
C18_ResponseOrder ==
  \A c \in CallIds :
    /\ ([callId |-> c, msg |-> "180"] \in sipOut
          => [callId |-> c, msg |-> "100"] \in sipOut)
    /\ ([callId |-> c, msg |-> "200"] \in sipOut
          => /\ [callId |-> c, msg |-> "100"] \in sipOut
             /\ [callId |-> c, msg |-> "180"] \in sipOut)

\* C19: an RTP packet that arrives after the ACK, while the call is CONFIRMED
\* and its media validation timer is pending, moves the session to MEDIA_READY at once and
\* disarms the timer.
C19_RtpConfirmsMedia ==
  [][ (/\ nFrames' = nFrames + 1
       /\ HasCall
       /\ currentSession.callId \in ackSeen
       /\ sessions[currentSession.callId].state = "CONFIRMED"
       /\ sessions[currentSession.callId].mediaDue > now)
      => (/\ sessions'[currentSession.callId].state = "MEDIA_READY"
          /\ sessions'[currentSession.callId].mediaDue = -1) ]_vars

\* C20: session.updated from the AI while the current call is in MEDIA_READY
\* moves the session to AI_ACTIVE, sets welcomeMessageActive and sends the
\* welcome prompt followed by a response request to the AI.
C20_SessionUpdatedActivatesAI ==
  [][ (/\ lastOp'.op = "session.updated"
       /\ HasCall
       /\ sessions[currentSession.callId].state = "MEDIA_READY")
      => (/\ sessions'[currentSession.callId].state = "AI_ACTIVE"
          /\ currentSession'.welcomeMessageActive
          /\ \E i, j \in 1..Len(aiSent') :
                /\ i < j
                /\ aiSent'[i].type = "conversation.item.create"
                /\ aiSent'[j].type = "response.create") ]_vars

\* C21: teardown cancels every timer registered against the session: right
\* after a BYE that ended the call, the call's session has neither its media
\* validation timer nor its session timer pending.
C21_TeardownCancelsTimers ==
  (lastOp.op = "bye" /\ lastOp.terminated)
    => /\ sessions[lastOp.callId].mediaDue = -1
       /\ ~sessions[lastOp.callId].sessionTimer

\* C22: after the BYE-200 exchange that ends a call, the call's session is no
\* longer held by the session manager.
C22_SessionRemovedAfterBye ==
  (lastOp.op = "bye" /\ lastOp.terminated /\ lastOp.response = "200 OK")
    => sessions[lastOp.callId].state = "NONE"

C24_SentInOrder ==
  [][ \A p \in rtpLog' \ rtpLog : \A q \in rtpLog :
        /\ p.ts > q.ts
        /\ (p.seq - q.seq) % SeqModulus \in 1..(SeqModulus \div 2 - 1) ]_vars

\* C25: the packets of a session carry one SSRC, and from each packet to the
\* one with the next sequence number (modulo 2^16) the timestamp increases
\* by exactly 160.
C25_RtpProgression ==
  \A p \in rtpLog, q \in rtpLog :
    /\ p.ssrc = q.ssrc
    /\ q.seq = (p.seq + 1) % SeqModulus => q.ts = p.ts + MaxPayloadSize

\* C26: a close of the AI WebSocket schedules a reconnect after 1 s, 2 s,
\* 4 s, ... (1000 ms * 2^attempts, at most 30 s), and schedules none once 10
\* attempts have been made.
C26_ReconnectBackoff ==
  lastOp.op = "wsClose" =>
    IF lastOp.attempts < 10
    THEN /\ lastOp.scheduled
         /\ lastOp.delayMs = (IF 1000 * power(2, lastOp.attempts) > 30000 THEN 30000
                              ELSE 1000 * power(2, lastOp.attempts))
    ELSE ~lastOp.scheduled

\* C27: a client transaction's retransmission timer is first armed for 500 ms,
\* each retransmission doubles the interval up to 4 s, no more than 7
\* retransmissions are made for an INVITE and 6 for another method, and the
\* transaction is given up (TERMINATED, 'timeout') when that many were made
\* and the timer expires once more.
C27_RetransmissionSchedule ==
  LET cap(x) == IF x > TimerT2 THEN TimerT2 ELSE x
      limit == IF txn.method = "INVITE" THEN 7 ELSE 6
  IN /\ txnObs.armed # <<>> => txnObs.armed[1] = TimerT1
     /\ \A i \in 1..(Len(txnObs.armed) - 1) :
          txnObs.armed[i + 1] = cap(2 * txnObs.armed[i])
     /\ txn.timer # 0 => txn.timer = txnObs.armed[Len(txnObs.armed)]
     /\ txnObs.sent <= limit
     /\ txnObs.event = "timeout"
          => /\ txn.state = "TERMINATED"
             /\ txn.timer = 0
             /\ txnObs.sent = limit

C27_Witness ==
  /\ txnObs.event = "timeout"
  /\ txn.method = "INVITE"
  /\ txnObs.armed = <<500, 1000, 2000, 4000, 4000, 4000, 4000, 4000>>

\* C28: a run of the health check finds the bridge ALIVE exactly when the
\* state is REGISTERED, the last successful registration is younger than the
\* expiry the registrar granted, and no REGISTERING attempt is stuck for more
\* than 30 s (the socket is open throughout); when it finds the bridge
\* DEGRADED, that run sends a REGISTER.
C28_SelfLiveness ==
  [][ lastHealth'.at # lastHealth.at =>
        /\ lastHealth'.alive <=>
             /\ registrationState = "REGISTERED"
             /\ lastRegistrationTime # -1
             /\ now - lastRegistrationTime < grantedExpires
             /\ ~(registrationState = "REGISTERING" /\ lastRegistrationTime # -1
                    /\ now - lastRegistrationTime > StuckRegistering)
        /\ ~lastHealth'.alive =>
             /\ nRegisters' = nRegisters + 1
             /\ lastRegister'.by = "health" ]_vars

\* C29: an OPTIONS ping is sent only in the state REGISTERED, and no sooner
\* than 5 minutes after the ping before it.
C29_OptionsEveryFiveMinutes ==
  (lastHealth.at # -1 /\ lastHealth.keepAlive)
    => /\ lastHealth.state = "REGISTERED"
       /\ lastHealth.prevPing # -1 => lastHealth.at - lastHealth.prevPing >= KeepAliveAfter

\* C30: a socket error adds one to the error counter; the socket is closed
\* and bound again only when the counter has reached 3; at the re-bind the
\* counter is reset to 0 and a registration is scheduled 2 s later.
C30_SocketRecovery ==
  [][ lastSock'.n # lastSock.n =>
        /\ lastSock'.op = "error" => lastSock'.count = socketErrorCount + 1
        /\ lastSock'.rebinds # lastSock.rebinds =>
             /\ lastSock'.count >= SocketErrorLimit
             /\ socketErrorCount' = 0
             /\ settleTimers' = Append(settleTimers, now + SettleDelay) ]_vars

\* C31: no 500 is sent for a call whose 200 OK has been sent, the 200 OK of
\* the same handler included.
C31_No5xxAfter200 ==
  [][ \A c \in CallIds :
        [callId |-> c, msg |-> "500"] \in sipOut' \ sipOut
          => [callId |-> c, msg |-> "200"] \notin sipOut' ]_vars

\* C32: a request whose method is none of INVITE, ACK, BYE, CANCEL, OPTIONS,
\* REGISTER, NOTIFY is answered with 405.
C32_UnknownMethod405 ==
  ( /\ lastOp.op = "request"
    /\ lastOp.method \notin {"INVITE", "ACK", "BYE", "CANCEL", "OPTIONS", "REGISTER",
                             "NOTIFY"} )
    => "405" \in lastOp.responses

\* C33: a session in AI_ACTIVE whose media parameters are set passes
\* validateAudioReadiness and validateAIReadiness.
C33_ReadinessInAiActive ==
  \A c \in CallIds :
    (sessions[c].state = "AI_ACTIVE" /\ sessions[c].rtpPort /\ sessions[c].remoteSdp)
      => /\ validateAudioReadiness(sessions[c])
         /\ validateAIReadiness(sessions[c])

\* C34: once a CANCEL has been handled for the one INVITE of a call (its 487
\* is out), no later step sends the 200 OK of that INVITE or opens the RTP
\* socket, as long as no further INVITE arrives.
C34_NoAnswerAfterCancel ==
  [][ \A c \in CallIds :
        ( /\ nInvites = 1 /\ nInvites' = 1
          /\ [callId |-> c, msg |-> "487"] \in sipOut )
        => /\ [callId |-> c, msg |-> "200"] \in sipOut'
                => [callId |-> c, msg |-> "200"] \in sipOut
           /\ rtpSocket' # 0 => rtpSocket # 0 ]_vars

\* C35: an INVITE that arrives while an answered call is current, with a
\* Call-ID other than that call's, leaves the current call's context as it
\* was.
C35_LiveCallContextKept ==
  [][ ( /\ nInvites' = nInvites + 1
        /\ HasCall
        /\ [callId |-> currentSession.callId, msg |-> "200"] \in sipOut
        /\ \E c \in DOMAIN sessions :
             c # currentSession.callId /\ sessions'[c] # sessions[c] )
      => currentSession' = currentSession ]_vars

\* C36: a packet timer of streamRealtimeAudio puts its packet on the wire
\* only while the call it was scheduled for is still the current call and the
\* RTP socket is open; after cleanupSession, which drops the call and closes
\* the socket, the pending packets of that call are never sent, not even
\* when a later call has opened a new socket.
C36_NoRtpAfterCleanup ==
  [][ \A p \in rtpTimers \ rtpTimers' :
        rtpLog' # rtpLog
          => /\ currentSession.id = p.ref
             /\ currentSession.id # 0
             /\ rtpSocket # 0 ]_vars

C36_Witness ==
  /\ lastOp.op = "bye"
  /\ lastOp.terminated
  /\ ~HasCall
  /\ rtpSocket = 0
  /\ rtpTimers # {}

\* C37: the bridge's registration state becomes REGISTERED, and a refresh is
\* scheduled, only on a response to the REGISTER outstanding under the current
\* Call-ID, never on the response that answers the un-REGISTER (Expires: 0).
C37_RegisteredOnlyByRegister ==
  [][ ((registrationState' = "REGISTERED" /\ registrationState # "REGISTERED")
        \/ (registrationTimer' # registrationTimer /\ registrationTimer' # -1))
      => /\ \E r \in regOutstanding \ regOutstanding' : r.branch = registrationCallId
         /\ ~(/\ lastRegister.by = "unregister"
              /\ \E r \in regOutstanding \ regOutstanding' :
                   r.branch = lastRegister.branch) ]_vars

\* C38: once an AI WebSocket client was stopped by hand, no connection
\* attempt is started any more: neither by a reconnect that was already
\* scheduled nor by the 'close' event of the socket that stop() closed.
C38_NoReconnectAfterStop ==
  [][ aip.stopped => Len(aip'.socks) = Len(aip.socks) ]_vars

\* C39: while the client is not stopped, at most one reconnect timer is
\* pending, at most one connection attempt is in progress, and no more
\* reconnects were scheduled than connections failed.
C39_OneReconnectPerFailure ==
  ~aip.stopped =>
    /\ aip.timers <= 1
    /\ Cardinality({s \in DOMAIN aip.socks : aip.socks[s] = "connecting"}) <= 1
    /\ aip.scheduled <= aip.failures

\* C40: a step in which the bridge itself closes its SIP socket (a socket
\* recovery, or the close of shutdown) arms no recovery timer, and once
\* shutdown() has closed the socket no socket is bound again.
C40_OwnCloseNoRecovery ==
  [][ /\ (lastSock'.rebinds # lastSock.rebinds \/ (sipSocket = "bound" /\ sipSocket' = "null"))
         => \/ recoveryTimers' = recoveryTimers
            \/ recoveryTimers # <<>> /\ recoveryTimers' = Tail(recoveryTimers)
      /\ shutdownPhase' = "closed" => sipSocket' = "null" ]_vars

\* C11: at most one REGISTER transaction is outstanding at any instant: no
\* REGISTER is sent while an earlier one still awaits its final response.
C11_OneRegisterOutstanding == Cardinality(regOutstanding) <= 1

\* C12: each REGISTER carries a CSeq greater than the REGISTER sent before it
\* (and so, by induction, than every earlier one).
C12_CSeqStrictlyIncreases ==
  prevRegister.n > 0 => lastRegister.cseq > prevRegister.cseq

\* C13: what is sent after a REGISTER that got no response is a
\* retransmission of it: the identical message, with the same branch.
C13_RetransmissionIdentical ==
  (prevRegister.n > 0 /\ awaiting(prevRegister.branch))
    => /\ lastRegister.branch = prevRegister.branch
       /\ lastRegister.callId = prevRegister.callId
       /\ lastRegister.cseq = prevRegister.cseq
       /\ lastRegister.auth = prevRegister.auth
====
